---- MODULE Spec2Model ----
(***************************************************************************)
(* The lobber relay: the tunnel session (Connected -> Ready -> Closed),    *)
(* its pre-ready queue, writer channel and in-flight table, the hostname   *)
(* registry and the public handlers, after internal/relay/server.go.       *)
(***************************************************************************)
EXTENDS Integers, Sequences, FiniteSets, TLC

\* ------------------------------------------------------------------ bounds
MaxSessions == 2      \* handshakes that get as far as creating a session
MaxReqs == 2          \* public requests (ServeHTTP calls)
MaxBurst == 3         \* public requests of SpecBurst: one more than reqCh holds
MaxCloseCalls == 1    \* Close() calls made from outside the session's own goroutines
MaxTime == 1          \* clock ticks
MaxStray == 1         \* Response frames that match no request, counted up to this

MaxBody == 3           \* bytes in a message body
MaxValues == 2         \* values of one header
MaxFrames == 2         \* frames written to one stream

\* ------------------------------------------------------- configuration
MaxPendingQueue == 1  \* ServerConfig.MaxPendingQueue
PendingQueueTTL == 0  \* ServerConfig.PendingQueueTTL, in ticks

\* ------------------------------------------- program constants (scaled)
ReqChCap == 2         \* make(chan *pendingRequest, 100), scaled down
SigChCap == 1         \* make(chan *tunnel.Response, 100), scaled down
RespGrace == 1        \* the 5*time.Second added to the TTL, in ticks

Nil == 0

TunnelStateConnected == "Connected"
TunnelStateReady == "Ready"
TunnelStateClosed == "Closed"

\* ------------------------------------------------------------- strings
\* Strings the code inspects are sequences of characters or of words.
BearerPrefix == <<"B", "e", "a", "r", "e", "r", " ">>
HostA == <<"a">>
HostAPort == <<"a", ":", "8", "0">>
HostB == <<"b">>
Localhost == <<"localhost">>
HostC == <<"c">>
Loopback == <<"1", "2", "7", ".", "1">>
Names == {HostA, HostAPort, HostB, Localhost}
BaseDomain == HostB

BodyQueueTimeout == <<"request", "timeout", "in", "queue">>
BodyOverloaded == <<"tunnel", "overloaded">>
BodyTunnelClosed == <<"tunnel", "closed">>
BodyPeer == <<"hello">>

\* request paths: the first element is the part of the path ServeHTTP tests
PathHealth == <<"/health">>
PathConnect == <<"/_lobber/connect">>
PathStripe == <<"/stripe/webhook">>
PathStatic == <<"/static/", "app.js">>
PathDashboard == <<"/dashboard", "/settings">>
PathRoot == <<"/">>
PathApi == <<"/", "api">>

\* strings.Contains on a body, for a word
Contains(body, w) == \E i \in 1..Len(body) : body[i] = w

HasPrefix(s, p) == Len(s) >= Len(p) /\ SubSeq(s, 1, Len(p)) = p

\* strings.TrimPrefix
TrimPrefix(s, p) == IF HasPrefix(s, p) THEN SubSeq(s, Len(p) + 1, Len(s)) ELSE s

\* index of the first ":" of a host, 0 when there is none
ColonAt(h) ==
  IF \E i \in 1..Len(h) : h[i] = ":"
  THEN CHOOSE i \in 1..Len(h) : h[i] = ":" /\ \A j \in 1..(i - 1) : h[j] # ":"
  ELSE 0

stripPort(h) == IF ColonAt(h) > 0 THEN SubSeq(h, 1, ColonAt(h) - 1) ELSE h

isPrimaryHost(h, base) ==
  \/ base # <<>> /\ h = base
  \/ h = <<>>
  \/ h = Localhost
  \/ HasPrefix(h, <<"1", "2", "7", ".">>)

\* ------------------------------------------------------------ identifiers
Sessions == 1..MaxSessions
Reqs == 1..MaxBurst
ExtClosers == 1..MaxCloseCalls
LC(t) == MaxCloseCalls + t              \* the Close() call of t's lifecycle goroutine
CloseCallers == 1..(MaxCloseCalls + MaxSessions)
IDs == {"a", "b"}                       \* request ids (X-Request-ID or generated)

\* ------------------------------------------------------------- responses
NoResp == [kind |-> "none"]
NilResp == [kind |-> "nil"]             \* a nil *tunnel.Response
Resp(id, code, body) == [kind |-> "resp", id |-> id, status |-> code, body |-> body]

NoOut == [code |-> 0, body |-> <<>>, retry |-> ""]
Out(code, body) == [code |-> code, body |-> body, retry |-> ""]

VARIABLES
  tunnels,         \* Server.tunnels: hostname -> session (Nil: no entry)
  tokenValidator,  \* Server.tokenValidator is set
  nsess,           \* sessions created so far
  tun,             \* the Tunnel objects
  life,            \* each session's lifecycle goroutine (waitForReady, readLoop)
  wr,              \* each session's request-writing goroutine
  pending,         \* readLoop's in-flight table: id -> pendingRequest
  wire,            \* Request frames written to the connection, in order
  hp,              \* the ServeHTTP / handleProxy calls
  ch,              \* pendingRequest.respCh of each call (log: every value sent on it)
  cl,              \* the Close() calls
  now,             \* the clock
  panicked,        \* a goroutine panicked: the process is gone
  accepted,        \* history: requests in the order handleProxy placed them
  atTerminal,      \* history: requests the session held when a Close() turned it Closed
  connect,         \* the last handshake and its answer
  codec,           \* a frame-codec exchange: a message, the stream, what was decoded
  client,          \* the tunnel client: Client.Run, its loop and its connection
  locks            \* the three locks and the tasks that take them, each at a place in its code

vars == <<tunnels, tokenValidator, nsess, tun, life, wr, pending, wire,
          hp, ch, cl, now, panicked, accepted, atTerminal, connect, codec, client, locks>>

\* no codec exchange
NoCodec == [pc |-> "off", msg |-> [nil |-> TRUE], w |-> <<>>, frames |-> <<>>,
            cut |-> FALSE, got |-> <<>>]

\* no task takes a lock
NoLocks == [kind |-> <<>>, pc |-> <<>>, mu |-> <<>>]

\* no tunnel client
NoClient == [pc |-> "off", ret |-> FALSE, ctx |-> FALSE, conn |-> FALSE, errCh |-> FALSE,
             bufErr |-> FALSE, inbox |-> <<>>, read |-> <<>>, out |-> <<>>,
             req |-> "", resp |-> [id |-> "", code |-> 0]]

NoTunnel ==
  [Domain |-> <<>>, UserID |-> "", state |-> TunnelStateConnected, done |-> FALSE,
   connCloses |-> 0, pendingQueue |-> <<>>, queueMu |-> FALSE, reqCh |-> <<>>,
   sigCh |-> 0, bufErr |-> FALSE, onCloseCalls |-> 0]

NoConnect == [domain |-> <<>>, auth |-> <<>>, hijack |-> FALSE, code |-> 0, session |-> Nil]

Init ==
  /\ tunnels = [d \in Names |-> Nil]
  /\ tokenValidator = FALSE
  /\ nsess = 0
  /\ tun = [t \in Sessions |-> NoTunnel]
  /\ life = [t \in Sessions |-> [pc |-> "off", fnow |-> 0, fidx |-> 0, pr |-> Nil, resp |-> NoResp,
                                  stray |-> 0, wl |-> "off"]]
  /\ wr = [t \in Sessions |-> [pc |-> "off", pr |-> Nil]]
  /\ pending = [t \in Sessions |-> [i \in IDs |-> Nil]]
  /\ wire = [t \in Sessions |-> <<>>]
  /\ hp = [r \in Reqs |-> [pc |-> "idle", host |-> <<>>, path |-> <<>>, tun |-> Nil,
                           state |-> "",
                           id |-> "", queuedAt |-> 0, out |-> NoOut]]
  /\ ch = [r \in Reqs |-> [buf |-> NoResp, closed |-> FALSE, log |-> <<>>]]
  /\ cl = [c \in CloseCallers |-> [pc |-> "idle", tun |-> Nil]]
  /\ now = 0
  /\ panicked = FALSE
  /\ accepted = [t \in Sessions |-> <<>>]
  /\ atTerminal = [t \in Sessions |-> [queued |-> {}, sent |-> {}]]
  /\ connect = NoConnect
  /\ codec = NoCodec
  /\ client = NoClient
  /\ locks = NoLocks


\* ------------------------------------------------------------- helpers
Range(q) == {q[i] : i \in 1..Len(q)}

ConnDown(t) == tun[t].connCloses > 0

\* a send on, and the close of, a pendingRequest's respCh (capacity one)
ChSend(c, v) == [c EXCEPT !.buf = v, !.log = Append(@, v)]
ChClose(c) == [c EXCEPT !.closed = TRUE]
ChFail(c, v) == ChClose(ChSend(c, v))

\* ------------------------------------------------------------ registry
\* a handshake that does not register the session it creates
RegisterTunnelSkip(reg, domain, t) == reg

RegisterTunnel(reg, domain, t) == [reg EXCEPT ![domain] = t]

\* an unregister that leaves the entry in place
UnregisterTunnelKeep(reg, domain) == reg

UnregisterTunnel(reg, domain) == [reg EXCEPT ![domain] = Nil]

HasTunnel(reg, domain) == domain \in DOMAIN reg /\ reg[domain] # Nil

\* ----------------------------------------------------------- handshake
ValidTokens == {<<"k">>}
\* the configured TokenValidator: (userID, valid)
TokenValidate(token) ==
  IF token \in ValidTokens THEN [user |-> "user123", valid |-> TRUE]
  ELSE [user |-> "", valid |-> FALSE]

\* a handshake that does not test that the header had the Bearer prefix
ConnectStatusNoScheme(domain, authHeader, canHijack) ==
  LET token == TrimPrefix(authHeader, BearerPrefix) IN
  IF domain = <<>> THEN 400
  ELSE IF token = <<>> THEN 401
  ELSE IF tokenValidator /\ ~TokenValidate(token).valid THEN 401
  ELSE IF ~canHijack THEN 500
  ELSE 200

\* the status handleConnect answers before it hijacks; 200 when it goes on
ConnectStatus(domain, authHeader, canHijack) ==
  LET token == TrimPrefix(authHeader, BearerPrefix) IN
  IF domain = <<>> THEN 400
  ELSE IF token = <<>> \/ token = authHeader THEN 401
  ELSE IF tokenValidator /\ ~TokenValidate(token).valid THEN 401
  ELSE IF ~canHijack THEN 500
  ELSE 200

\* a handshake that labels every session "anonymous"
ConnectUserAnonymous(authHeader) == "anonymous"

ConnectUser(authHeader) ==
  IF tokenValidator THEN TokenValidate(TrimPrefix(authHeader, BearerPrefix)).user
  ELSE "anonymous"

\* POST /_lobber/connect
handleConnect(domain, authHeader, canHijack) ==
  /\ ~panicked
  /\ UNCHANGED <<codec, client, locks>>
  /\ nsess < MaxSessions
  /\ LET code == ConnectStatus(domain, authHeader, canHijack)
         t == nsess + 1
     IN
     IF code # 200
     THEN /\ connect' = [domain |-> domain, auth |-> authHeader, hijack |-> canHijack,
                         code |-> code, session |-> Nil]
          /\ UNCHANGED <<tunnels, nsess, tun, life>>
     ELSE /\ connect' = [domain |-> domain, auth |-> authHeader, hijack |-> canHijack,
                         code |-> 200, session |-> t]
          /\ nsess' = t
          /\ tun' = [tun EXCEPT ![t] = [NoTunnel EXCEPT !.Domain = domain,
                                                        !.UserID = ConnectUser(authHeader)]]
          /\ tunnels' = RegisterTunnel(tunnels, domain, t)
          /\ life' = [life EXCEPT ![t].pc = "waitReady"]
  /\ UNCHANGED <<tokenValidator, wr, pending, wire, hp, ch, cl, now, panicked,
                 accepted, atTerminal>>

\* ------------------------------------------------------------- Close()
\* the requests on the writer channel or in the in-flight table
Sent(t) == (Range(tun[t].reqCh) \cup {pending[t][i] : i \in IDs}) \ {Nil}


\* an entry check that turns every Close() call away
CloseGuardAlways(state) == TRUE

\* the entry check of Close: TRUE when the call returns at once
CloseGuard(state) == state = TunnelStateClosed

\* Close: stateMu.Lock(); return if already Closed; t.state = TunnelStateClosed
EnterClose(c, t) ==
  IF CloseGuard(tun[t].state)
  THEN /\ cl' = [cl EXCEPT ![c] = [pc |-> "noop", tun |-> t]]
       /\ UNCHANGED <<tun, atTerminal>>
  ELSE /\ cl' = [cl EXCEPT ![c] = [pc |-> "signal", tun |-> t]]
       /\ tun' = [tun EXCEPT ![t].state = TunnelStateClosed]
       /\ atTerminal' = [atTerminal EXCEPT ![t].queued = @ \cup Range(tun[t].pendingQueue),
                                           ![t].sent = @ \cup Sent(t)]

\* a Close() call from outside the session's goroutines
Close_Enter(c, t) ==
  /\ ~panicked
  /\ UNCHANGED <<codec, client, locks>>
  /\ c \in ExtClosers /\ cl[c].pc = "idle" /\ t <= nsess
  /\ EnterClose(c, t)
  /\ UNCHANGED <<tunnels, tokenValidator, nsess, life, wr, pending, wire, hp, ch,
                 now, panicked, accepted, connect>>

\* the lifecycle goroutine calls t.Close(): the call is cl[LC(t)]
LifeClose(t) ==
  /\ life' = [life EXCEPT ![t].pc = "closing"]
  /\ EnterClose(LC(t), t)

\* Close: t.cancel(); close(t.done) -- closing a closed channel panics
Close_Signal(c) ==
  /\ ~panicked
  /\ UNCHANGED <<codec, client, locks>>
  /\ cl[c].pc = "signal"
  /\ LET t == cl[c].tun IN
     IF tun[t].done
     THEN /\ panicked' = TRUE
          /\ cl' = [cl EXCEPT ![c].pc = "panic"]
          /\ UNCHANGED tun
     ELSE /\ tun' = [tun EXCEPT ![t].done = TRUE]
          /\ cl' = [cl EXCEPT ![c].pc = "conn"]
          /\ UNCHANGED panicked
  /\ UNCHANGED <<tunnels, tokenValidator, nsess, life, wr, pending, wire, hp, ch,
                 now, accepted, atTerminal, connect>>

\* Close: t.conn.Close()
Close_Conn(c) ==
  /\ ~panicked
  /\ UNCHANGED <<codec, client, locks>>
  /\ cl[c].pc = "conn"
  /\ tun' = [tun EXCEPT ![cl[c].tun].connCloses = @ + 1]
  /\ cl' = [cl EXCEPT ![c].pc = "drain"]
  /\ UNCHANGED <<tunnels, tokenValidator, nsess, life, wr, pending, wire, hp, ch,
                 now, panicked, accepted, atTerminal, connect>>

\* the Response Close gives a queued request
ClosedResponse(id) == Resp(id, 503, BodyTunnelClosed)

\* Close: under queueMu, fail every queued request, then t.pendingQueue = nil
Close_Drain(c) ==
  /\ ~panicked
  /\ UNCHANGED <<codec, client, locks>>
  /\ cl[c].pc = "drain"
  /\ LET t == cl[c].tun
         q == Range(tun[t].pendingQueue)
     IN
     /\ ~tun[t].queueMu
     /\ \A r \in q : ~ch[r].closed /\ ch[r].buf = NoResp
     /\ ch' = [r \in Reqs |-> IF r \in q THEN ChFail(ch[r], ClosedResponse(hp[r].id))
                              ELSE ch[r]]
     /\ tun' = [tun EXCEPT ![t].pendingQueue = <<>>]
  /\ cl' = [cl EXCEPT ![c].pc = "onClose"]
  /\ UNCHANGED <<tunnels, tokenValidator, nsess, life, wr, pending, wire, hp,
                 now, panicked, accepted, atTerminal, connect>>

\* Close: t.onClose(), the callback handleConnect installed; then return
Close_OnClose(c) ==
  /\ ~panicked
  /\ UNCHANGED <<codec, client, locks>>
  /\ cl[c].pc = "onClose"
  /\ LET t == cl[c].tun IN
     /\ tunnels' = UnregisterTunnel(tunnels, tun[t].Domain)
     /\ tun' = [tun EXCEPT ![t].onCloseCalls = @ + 1]
  /\ cl' = [cl EXCEPT ![c].pc = "returned"]
  /\ UNCHANGED <<tokenValidator, nsess, life, wr, pending, wire, hp, ch,
                 now, panicked, accepted, atTerminal, connect>>

\* ---------------------------------------------- the lifecycle goroutine
\* waitForReady: tunnel.DecodeReady returns; ok when the peer's Ready frame was read
waitForReady_Decode(t, ok) ==
  /\ ~panicked
  /\ UNCHANGED <<codec, client, locks>>
  /\ life[t].pc = "waitReady"
  /\ IF ok
     THEN life' = [life EXCEPT ![t].pc = "setReady"] /\ UNCHANGED <<cl, tun, atTerminal>>
     ELSE LifeClose(t)
  /\ UNCHANGED <<tunnels, tokenValidator, nsess, wr, pending, wire, hp, ch,
                 now, panicked, accepted, connect>>

\* what waitForReady stores in t.state once the Ready frame is read
ReadyTransition(old) == TunnelStateReady

\* waitForReady: t.state = TunnelStateReady under stateMu
waitForReady_SetReady(t) ==
  /\ ~panicked
  /\ UNCHANGED <<codec, client, locks>>
  /\ life[t].pc = "setReady"
  /\ tun' = [tun EXCEPT ![t].state = ReadyTransition(tun[t].state)]
  /\ life' = [life EXCEPT ![t].pc = "flushLock"]
  /\ UNCHANGED <<tunnels, tokenValidator, nsess, wr, pending, wire, hp, ch, cl,
                 now, panicked, accepted, atTerminal, connect>>

\* flushPendingQueue: queueMu.Lock(); now := time.Now()
flushPendingQueue_Lock(t) ==
  /\ ~panicked
  /\ UNCHANGED <<codec, client, locks>>
  /\ life[t].pc = "flushLock"
  /\ ~tun[t].queueMu
  /\ tun' = [tun EXCEPT ![t].queueMu = TRUE]
  /\ life' = [life EXCEPT ![t].pc = "flush", ![t].fnow = now, ![t].fidx = 1]
  /\ UNCHANGED <<tunnels, tokenValidator, nsess, wr, pending, wire, hp, ch, cl,
                 now, panicked, accepted, atTerminal, connect>>

\* a TTL test with the operands of the subtraction swapped
ExpiredSwapped(at, queuedAt) == queuedAt - at > PendingQueueTTL

\* the TTL test of flushPendingQueue
Expired(at, queuedAt) == at - queuedAt > PendingQueueTTL

\* flushPendingQueue: one iteration of the loop over the queue
flushPendingQueue_Entry(t) ==
  /\ ~panicked
  /\ UNCHANGED <<codec, client, locks>>
  /\ life[t].pc = "flush"
  /\ life[t].fidx <= Len(tun[t].pendingQueue)
  /\ LET pr == tun[t].pendingQueue[life[t].fidx] IN
     /\ ~ch[pr].closed /\ ch[pr].buf = NoResp
     /\ IF Expired(life[t].fnow, hp[pr].queuedAt)
        THEN /\ ch' = [ch EXCEPT ![pr] = ChFail(@, Resp(hp[pr].id, 503, BodyQueueTimeout))]
             /\ UNCHANGED tun
        ELSE IF Len(tun[t].reqCh) < ReqChCap
        THEN /\ tun' = [tun EXCEPT ![t].reqCh = Append(@, pr)]
             /\ UNCHANGED ch
        ELSE /\ ch' = [ch EXCEPT ![pr] = ChFail(@, Resp(hp[pr].id, 503, BodyOverloaded))]
             /\ UNCHANGED tun
  /\ life' = [life EXCEPT ![t].fidx = @ + 1]
  /\ UNCHANGED <<tunnels, tokenValidator, nsess, wr, pending, wire, hp, cl,
                 now, panicked, accepted, atTerminal, connect>>

\* flushPendingQueue: t.pendingQueue = nil; queueMu.Unlock()
flushPendingQueue_End(t) ==
  /\ ~panicked
  /\ UNCHANGED <<codec, client, locks>>
  /\ life[t].pc = "flush"
  /\ life[t].fidx > Len(tun[t].pendingQueue)
  /\ tun' = [tun EXCEPT ![t].pendingQueue = <<>>, ![t].queueMu = FALSE]
  /\ life' = [life EXCEPT ![t].pc = "readStart", ![t].fidx = 0, ![t].fnow = 0]
  /\ UNCHANGED <<tunnels, tokenValidator, nsess, wr, pending, wire, hp, ch, cl,
                 now, panicked, accepted, atTerminal, connect>>


\* ------------------------------------------------ ServeHTTP / handleProxy
Finish(r, out) ==
  hp' = [hp EXCEPT ![r].pc = "done", ![r].out = out, ![r].state = "", ![r].queuedAt = 0]

\* the routes ServeHTTP serves itself, before it looks at the host: the internal
\* routes (the mux), static assets and the dashboard
OwnRoute(path) ==
  \/ path \in {PathHealth, PathConnect, PathStripe}
  \/ HasPrefix(path, <<"/static/">>)
  \/ HasPrefix(path, <<"/dashboard">>)

\* what those routes answer; the server has no database and no Stripe key, so the
\* mux knows /health and /_lobber/connect only and there is no dashboard handler
\* (the file server under /static/ is shown serving a file it has)
OwnAnswer(path) ==
  IF path = PathHealth THEN Out(200, <<"status", "ok">>)
  ELSE IF path = PathStripe THEN Out(404, <<"404", "page", "not", "found">>)
  ELSE IF HasPrefix(path, <<"/static/">>) THEN Out(200, <<"static", "asset">>)
  ELSE Out(503, <<"dashboard", "unavailable">>)

\* ServeHTTP; the route /_lobber/connect is the action handleConnect
ServeHTTP(r, host, path) ==
  /\ ~panicked
  /\ UNCHANGED <<codec, client, locks>>
  /\ hp[r].pc = "idle"
  /\ path # PathConnect
  /\ IF OwnRoute(path)
     THEN hp' = [hp EXCEPT ![r].pc = "done", ![r].host = host, ![r].path = path,
                           ![r].out = OwnAnswer(path)]
     ELSE IF HasTunnel(tunnels, stripPort(host))
     THEN hp' = [hp EXCEPT ![r].pc = "lookup", ![r].host = host, ![r].path = path]
     ELSE IF isPrimaryHost(stripPort(host), BaseDomain)
     THEN hp' = [hp EXCEPT ![r].pc = "done", ![r].host = host, ![r].path = path,
                           ![r].out = Out(200, <<"landing">>)]
     ELSE hp' = [hp EXCEPT ![r].pc = "done", ![r].host = host, ![r].path = path,
                           ![r].out = Out(502, <<"tunnel", "not", "found">>)]
  /\ UNCHANGED <<tunnels, tokenValidator, nsess, tun, life, wr, pending, wire, ch,
                 cl, now, panicked, accepted, atTerminal, connect>>

\* handleProxy: tun, ok := s.tunnels[r.Host]
handleProxy_Lookup(r) ==
  /\ ~panicked
  /\ UNCHANGED <<codec, client, locks>>
  /\ hp[r].pc = "lookup"
  /\ IF HasTunnel(tunnels, hp[r].host)
     THEN hp' = [hp EXCEPT ![r].pc = "state", ![r].tun = tunnels[hp[r].host]]
     ELSE Finish(r, Out(502, <<"tunnel", "not", "found">>))
  /\ UNCHANGED <<tunnels, tokenValidator, nsess, tun, life, wr, pending, wire, ch,
                 cl, now, panicked, accepted, atTerminal, connect>>

\* a state test that turns no request away
RefusedNever(state) == FALSE

\* handleProxy: if state == TunnelStateClosed, the request is refused
Refused(state) == state = TunnelStateClosed

\* handleProxy: state := tun.state; the request id; pr with queuedAt = time.Now()
handleProxy_State(r, id) ==
  /\ ~panicked
  /\ UNCHANGED <<codec, client, locks>>
  /\ hp[r].pc = "state"
  /\ LET state == tun[hp[r].tun].state IN
     IF Refused(state)
     THEN Finish(r, Out(502, BodyTunnelClosed))
     ELSE hp' = [hp EXCEPT ![r].pc = "place", ![r].state = state, ![r].id = id,
                           ![r].queuedAt = now]
  /\ UNCHANGED <<tunnels, tokenValidator, nsess, tun, life, wr, pending, wire, ch,
                 cl, now, panicked, accepted, atTerminal, connect>>

\* an admission test that never finds the queue full
QueueFullNever(q) == FALSE

\* an admission test that lets one request too many in
QueueFullOffByOne(q) == Len(q) > MaxPendingQueue

\* the admission test of the pre-ready queue
QueueFull(q) == Len(q) >= MaxPendingQueue

\* handleProxy, state read as Connected: the queue branch, under queueMu
handleProxy_Enqueue(r) ==
  /\ ~panicked
  /\ UNCHANGED <<codec, client, locks>>
  /\ hp[r].pc = "place"
  /\ hp[r].state = TunnelStateConnected
  /\ LET t == hp[r].tun IN
     /\ ~tun[t].queueMu
     /\ IF QueueFull(tun[t].pendingQueue)
        THEN /\ Finish(r, [code |-> 503, body |-> <<"tunnel", "not", "ready,", "queue", "full">>,
                           retry |-> "1"])
             /\ UNCHANGED <<tun, accepted>>
        ELSE /\ tun' = [tun EXCEPT ![t].pendingQueue = Append(@, r)]
             /\ accepted' = [accepted EXCEPT ![t] = Append(@, r)]
             /\ hp' = [hp EXCEPT ![r].pc = "wait", ![r].state = ""]
  /\ UNCHANGED <<tunnels, tokenValidator, nsess, life, wr, pending, wire, ch,
                 cl, now, panicked, atTerminal, connect>>

\* handleProxy, state read as Ready: select { tun.reqCh <- pr | <-tun.done }
handleProxy_Send(r, viaDone) ==
  /\ ~panicked
  /\ UNCHANGED <<codec, client, locks>>
  /\ hp[r].pc = "place"
  /\ hp[r].state = TunnelStateReady
  /\ LET t == hp[r].tun IN
     IF viaDone
     THEN /\ tun[t].done
          /\ Finish(r, Out(502, BodyTunnelClosed))
          /\ UNCHANGED <<tun, accepted>>
     ELSE /\ Len(tun[t].reqCh) < ReqChCap
          /\ tun' = [tun EXCEPT ![t].reqCh = Append(@, r)]
          /\ accepted' = [accepted EXCEPT ![t] = Append(@, r)]
          /\ hp' = [hp EXCEPT ![r].pc = "wait", ![r].state = ""]
  /\ UNCHANGED <<tunnels, tokenValidator, nsess, life, wr, pending, wire, ch,
                 cl, now, panicked, atTerminal, connect>>

\* handleProxy: the final select, case resp := <-pr.respCh
handleProxy_Receive(r) ==
  /\ ~panicked
  /\ UNCHANGED <<codec, client, locks>>
  /\ hp[r].pc = "wait"
  /\ ch[r].buf # NoResp \/ ch[r].closed
  /\ IF ch[r].buf = NoResp \/ ch[r].buf = NilResp
     THEN Finish(r, Out(502, <<"tunnel", "error">>))
     ELSE Finish(r, Out(ch[r].buf.status, ch[r].buf.body))
  /\ ch' = [ch EXCEPT ![r].buf = NoResp]
  /\ UNCHANGED <<tunnels, tokenValidator, nsess, tun, life, wr, pending, wire,
                 cl, now, panicked, accepted, atTerminal, connect>>

\* the timer of the final select runs from the request's arrival (pr.queuedAt is
\* taken a few statements before the select is reached)
Deadline(queuedAt) == queuedAt + PendingQueueTTL + RespGrace

\* handleProxy: the final select, case <-time.After(PendingQueueTTL + 5s)
handleProxy_Timeout(r) ==
  /\ ~panicked
  /\ UNCHANGED <<codec, client, locks>>
  /\ hp[r].pc = "wait"
  /\ now >= Deadline(hp[r].queuedAt)
  /\ Finish(r, Out(504, <<"tunnel", "response", "timeout">>))
  /\ UNCHANGED <<tunnels, tokenValidator, nsess, tun, life, wr, pending, wire, ch,
                 cl, now, panicked, accepted, atTerminal, connect>>

\* handleProxy: the final select, case <-tun.done
handleProxy_Done(r) ==
  /\ ~panicked
  /\ UNCHANGED <<codec, client, locks>>
  /\ hp[r].pc = "wait"
  /\ tun[hp[r].tun].done
  /\ Finish(r, Out(502, BodyTunnelClosed))
  /\ UNCHANGED <<tunnels, tokenValidator, nsess, tun, life, wr, pending, wire, ch,
                 cl, now, panicked, accepted, atTerminal, connect>>


\* --------------------------------------------------------------- readLoop
\* readLoop: go t.writeLoop() has run; the request-writing goroutine is started
readLoop_Start(t) ==
  /\ ~panicked
  /\ UNCHANGED <<codec, client, locks>>
  /\ life[t].pc = "readStart"
  /\ life' = [life EXCEPT ![t].pc = "readTop", ![t].wl = "wait"]
  /\ wr' = [wr EXCEPT ![t].pc = "select"]
  /\ UNCHANGED <<tunnels, tokenValidator, nsess, tun, pending, wire, hp, ch, cl,
                 now, panicked, accepted, atTerminal, connect>>

\* readLoop: select { case <-t.done: return; default: } -- return runs the deferred Close
readLoop_Top(t) ==
  /\ ~panicked
  /\ UNCHANGED <<codec, client, locks>>
  /\ life[t].pc = "readTop"
  /\ IF tun[t].done
     THEN LifeClose(t)
     ELSE life' = [life EXCEPT ![t].pc = "decode"] /\ UNCHANGED <<cl, tun, atTerminal>>
  /\ UNCHANGED <<tunnels, tokenValidator, nsess, wr, pending, wire, hp, ch,
                 now, panicked, accepted, connect>>

\* readLoop: tunnel.DecodeResponse fails (transport down, bad tag, bad payload)
readLoop_DecodeErr(t) ==
  /\ ~panicked
  /\ UNCHANGED <<codec, client, locks>>
  /\ life[t].pc = "decode"
  /\ LifeClose(t)
  /\ UNCHANGED <<tunnels, tokenValidator, nsess, wr, pending, wire, hp, ch,
                 now, panicked, accepted, connect>>

\* matching by arrival order: any request in flight takes the response
CorrelateAny(table, id) ==
  IF \E i \in IDs : table[i] # Nil
  THEN table[CHOOSE i \in IDs : table[i] # Nil]
  ELSE Nil

\* the in-flight entry a response with this id is matched with
Correlate(table, id) == table[id]

\* readLoop: a Response frame with this id is decoded; look it up and delete it
\* (life[t].stray counts the frames that matched nothing; the code keeps no such count)
readLoop_Decode(t, id) ==
  /\ ~panicked
  /\ UNCHANGED <<codec, client, locks>>
  /\ life[t].pc = "decode"
  /\ LET pr == Correlate(pending[t], id) IN
     IF pr # Nil
     THEN /\ pending' = [pending EXCEPT ![t][id] = Nil]
          /\ life' = [life EXCEPT ![t].pc = "deliver", ![t].pr = pr,
                                  ![t].resp = Resp(id, 200, BodyPeer)]
     ELSE /\ life' = [life EXCEPT ![t].pc = "readTop",
                                  ![t].stray = IF @ < MaxStray THEN @ + 1 ELSE @]
          /\ UNCHANGED pending
  /\ UNCHANGED <<tunnels, tokenValidator, nsess, tun, wr, wire, hp, ch, cl,
                 now, panicked, accepted, atTerminal, connect>>

\* readLoop: pr.respCh <- resp
readLoop_Deliver(t) ==
  /\ ~panicked
  /\ UNCHANGED <<codec, client, locks>>
  /\ life[t].pc = "deliver"
  /\ LET pr == life[t].pr IN
     IF ch[pr].closed
     THEN /\ panicked' = TRUE
          /\ UNCHANGED <<ch, life>>
     ELSE /\ ch[pr].buf = NoResp
          /\ ch' = [ch EXCEPT ![pr] = ChSend(@, life[t].resp)]
          /\ life' = [life EXCEPT ![t].pc = "closeCh", ![t].resp = NoResp]
          /\ UNCHANGED panicked
  /\ UNCHANGED <<tunnels, tokenValidator, nsess, tun, wr, pending, wire, hp, cl,
                 now, accepted, atTerminal, connect>>

\* readLoop: close(pr.respCh)
readLoop_CloseCh(t) ==
  /\ ~panicked
  /\ UNCHANGED <<codec, client, locks>>
  /\ life[t].pc = "closeCh"
  /\ LET pr == life[t].pr IN
     IF ch[pr].closed
     THEN /\ panicked' = TRUE
          /\ UNCHANGED <<ch, life>>
     ELSE /\ ch' = [ch EXCEPT ![pr] = ChClose(@)]
          /\ life' = [life EXCEPT ![t].pc = "readTop", ![t].pr = Nil]
          /\ UNCHANGED panicked
  /\ UNCHANGED <<tunnels, tokenValidator, nsess, tun, wr, pending, wire, hp, cl,
                 now, accepted, atTerminal, connect>>

\* a writeLoop that never looks at t.done
writeLoopDeaf(t) == FALSE

\* writeLoop, the goroutine the lifecycle goroutine starts before readLoop
\* (life[t].wl is its position): <-t.done; return
writeLoop(t) ==
  /\ ~panicked
  /\ UNCHANGED <<codec, client, locks>>
  /\ life[t].wl = "wait"
  /\ tun[t].done
  /\ life' = [life EXCEPT ![t].wl = "exit"]
  /\ UNCHANGED <<tunnels, tokenValidator, nsess, tun, wr, pending, wire, hp, ch, cl,
                 now, panicked, accepted, atTerminal, connect>>

\* ------------------------------------- the request-writing goroutine
\* a writer that does not record the request it is about to write
TrackedNot(table, id, pr) == table

\* pending[pr.req.ID] = pr, under pendingMu
Tracked(table, id, pr) == [table EXCEPT ![id] = pr]

\* select { case pr := <-t.reqCh: pending[pr.req.ID] = pr; signal | case <-t.done: return }
writer_Select(t, viaDone) ==
  /\ ~panicked
  /\ UNCHANGED <<codec, client, locks>>
  /\ wr[t].pc = "select"
  /\ IF viaDone
     THEN /\ tun[t].done
          /\ wr' = [wr EXCEPT ![t].pc = "exit"]
          /\ UNCHANGED <<tun, pending>>
     ELSE /\ tun[t].reqCh # <<>>
          /\ LET pr == Head(tun[t].reqCh) IN
             /\ pending' = [pending EXCEPT ![t] = Tracked(@, hp[pr].id, pr)]
             /\ wr' = [wr EXCEPT ![t] = [pc |-> "write", pr |-> pr]]
          /\ tun' = [tun EXCEPT ![t].reqCh = Tail(@),
                                ![t].sigCh = IF @ < SigChCap THEN @ + 1 ELSE @]
  /\ UNCHANGED <<tunnels, tokenValidator, nsess, life, wire, hp, ch, cl,
                 now, panicked, accepted, atTerminal, connect>>

\* a write that puts the frame on the wire twice
FlushedTwice(w, pr) == Append(Append(w, pr), pr)

\* the wire after EncodeRequest and Flush have written the frame of pr: one whole
\* frame behind those written before
Flushed(w, pr) == Append(w, pr)

\* tunnel.EncodeRequest(t.bufrw, pr.req) and t.bufrw.Flush(), whose error is dropped.
\* "ok": the frame reaches the wire. "lost": the frame was buffered and the flush
\* failed (the transport is down, or breaks now). "fail": EncodeRequest returned an
\* error (a write-through failed, or the bufio.Writer's error is already set).
writer_Write(t, outcome) ==
  /\ ~panicked
  /\ UNCHANGED <<codec, client, locks>>
  /\ wr[t].pc = "write"
  /\ LET pr == wr[t].pr IN
     CASE outcome = "ok" ->
            /\ ~tun[t].bufErr /\ ~ConnDown(t)
            /\ wire' = [wire EXCEPT ![t] = Flushed(@, pr)]
            /\ wr' = [wr EXCEPT ![t] = [pc |-> "select", pr |-> Nil]]
            /\ UNCHANGED <<tun, pending>>
       [] outcome = "lost" ->
            /\ ~tun[t].bufErr
            /\ tun' = [tun EXCEPT ![t].bufErr = TRUE]
            /\ wr' = [wr EXCEPT ![t] = [pc |-> "select", pr |-> Nil]]
            /\ UNCHANGED <<wire, pending>>
       [] OTHER ->
            /\ TRUE
            /\ tun' = [tun EXCEPT ![t].bufErr = TRUE]
            /\ pending' = [pending EXCEPT ![t][hp[pr].id] = Nil]
            /\ wr' = [wr EXCEPT ![t].pc = "failSend"]
            /\ UNCHANGED wire
  /\ UNCHANGED <<tunnels, tokenValidator, nsess, life, hp, ch, cl,
                 now, panicked, accepted, atTerminal, connect>>

\* the write-failure path: pr.respCh <- nil
writer_FailSend(t) ==
  /\ ~panicked
  /\ UNCHANGED <<codec, client, locks>>
  /\ wr[t].pc = "failSend"
  /\ LET pr == wr[t].pr IN
     IF ch[pr].closed
     THEN /\ panicked' = TRUE
          /\ UNCHANGED <<ch, wr>>
     ELSE /\ ch[pr].buf = NoResp
          /\ ch' = [ch EXCEPT ![pr] = ChSend(@, NilResp)]
          /\ wr' = [wr EXCEPT ![t].pc = "failClose"]
          /\ UNCHANGED panicked
  /\ UNCHANGED <<tunnels, tokenValidator, nsess, tun, life, pending, wire, hp, cl,
                 now, accepted, atTerminal, connect>>

\* the write-failure path: close(pr.respCh); return
writer_FailClose(t) ==
  /\ ~panicked
  /\ UNCHANGED <<codec, client, locks>>
  /\ wr[t].pc = "failClose"
  /\ LET pr == wr[t].pr IN
     IF ch[pr].closed
     THEN /\ panicked' = TRUE
          /\ UNCHANGED <<ch, wr>>
     ELSE /\ ch' = [ch EXCEPT ![pr] = ChClose(@)]
          /\ wr' = [wr EXCEPT ![t] = [pc |-> "exit", pr |-> Nil]]
          /\ UNCHANGED panicked
  /\ UNCHANGED <<tunnels, tokenValidator, nsess, tun, life, pending, wire, hp, cl,
                 now, accepted, atTerminal, connect>>

\* ------------------------------------------------------------- frame codec
\* internal/tunnel/protocol.go. A byte is a number in 0..255, a Go string or []byte a
\* sequence of bytes.
TypeRequest == 1
TypeResponse == 2
HeaderLen == 5          \* [type:1][length:4]

\* the printable ASCII characters, code 32 first
Ascii ==
  << " ", "!", "\"", "#", "$", "%", "&", "'", "(", ")", "*", "+", ",", "-", ".", "/",
     "0", "1", "2", "3", "4", "5", "6", "7", "8", "9", ":", ";", "<", "=", ">", "?",
     "@", "A", "B", "C", "D", "E", "F", "G", "H", "I", "J", "K", "L", "M", "N", "O",
     "P", "Q", "R", "S", "T", "U", "V", "W", "X", "Y", "Z", "[", "\\", "]", "^", "_",
     "grave", "a", "b", "c", "d", "e", "f", "g", "h", "i", "j", "k", "l", "m", "n", "o",
     "p", "q", "r", "s", "t", "u", "v", "w", "x", "y", "z", "{", "|", "}", "~" >>

Code(c) == 31 + (CHOOSE i \in 1..Len(Ascii) : Ascii[i] = c)

\* the bytes of a text given as its characters
Txt(chars) == [i \in 1..Len(chars) |-> Code(chars[i])]

\* unicode/utf8: the length of the well-formed encoding that starts at s[i], 0 when
\* the bytes there are not one (DecodeRune would return RuneError, 1)
Cont(s, i) == i <= Len(s) /\ s[i] >= 128 /\ s[i] <= 191

RuneLen(s, i) ==
  LET b == s[i]
      c == IF i + 1 <= Len(s) THEN s[i + 1] ELSE 0
  IN
  IF b < 128 THEN 1
  ELSE IF b >= 194 /\ b <= 223 THEN (IF Cont(s, i + 1) THEN 2 ELSE 0)
  ELSE IF b >= 224 /\ b <= 239 THEN
    IF /\ Cont(s, i + 1) /\ Cont(s, i + 2)
       /\ (b = 224 => c >= 160)
       /\ (b = 237 => c <= 159)
    THEN 3 ELSE 0
  ELSE IF b >= 240 /\ b <= 244 THEN
    IF /\ Cont(s, i + 1) /\ Cont(s, i + 2) /\ Cont(s, i + 3)
       /\ (b = 240 => c >= 144)
       /\ (b = 244 => c <= 143)
    THEN 4 ELSE 0
  ELSE 0

RECURSIVE ValidFrom(_, _)
ValidFrom(s, i) ==
  IF i > Len(s) THEN TRUE
  ELSE IF RuneLen(s, i) = 0 THEN FALSE
  ELSE ValidFrom(s, i + RuneLen(s, i))

\* utf8.ValidString
ValidString(s) == ValidFrom(s, 1)

\* U+FFFD, the replacement character, in UTF-8
RuneError == <<239, 191, 189>>

HexDigit(n) == IF n < 10 THEN 48 + n ELSE 87 + n
HexValue(b) ==
  IF b >= 48 /\ b <= 57 THEN b - 48
  ELSE IF b >= 97 /\ b <= 102 THEN b - 87
  ELSE IF b >= 65 /\ b <= 70 THEN b - 55
  ELSE 0 - 1

\* a string writer that copies every byte as it is
EscapedRaw(s, i) == [text |-> <<s[i]>>, n |-> 1]

\* encoding/json appendString with HTML escaping, from byte i of s on: what is
\* written for the character at s[i], and the bytes of s it stands for
Escaped(s, i) ==
  LET b == s[i]
      n == RuneLen(s, i)
  IN
  IF b = 34 \/ b = 92 THEN [text |-> <<92, b>>, n |-> 1]
  ELSE IF b = 10 THEN [text |-> <<92, 110>>, n |-> 1]       \* \n
  ELSE IF b = 13 THEN [text |-> <<92, 114>>, n |-> 1]       \* \r
  ELSE IF b = 9 THEN [text |-> <<92, 116>>, n |-> 1]        \* \t
  ELSE IF b < 32 \/ b \in {60, 62, 38} THEN                 \* \u00xx
    [text |-> <<92, 117, 48, 48, HexDigit(b \div 16), HexDigit(b % 16)>>, n |-> 1]
  ELSE IF b < 128 THEN [text |-> <<b>>, n |-> 1]
  ELSE IF n = 0 THEN [text |-> <<92, 117, 102, 102, 102, 100>>, n |-> 1]   \* \ufffd
  ELSE IF n = 3 /\ SubSeq(s, i, i + 1) = <<226, 128>> /\ s[i + 2] \in {168, 169} THEN
    [text |-> <<92, 117, 50, 48, 50, HexDigit(s[i + 2] - 160)>>, n |-> 3]  \* \u2028/9
  ELSE [text |-> SubSeq(s, i, i + n - 1), n |-> n]

RECURSIVE appendString(_, _)
appendFrom(s, i, e) == e.text \o appendString(s, i + e.n)
appendString(s, i) == IF i > Len(s) THEN <<>> ELSE appendFrom(s, i, Escaped(s, i))

\* a JSON string literal
MarshalString(s) == <<34>> \o appendString(s, 1) \o <<34>>

\* encoding/base64 StdEncoding
B64Char(n) ==
  IF n < 26 THEN 65 + n
  ELSE IF n < 52 THEN 71 + n
  ELSE IF n < 62 THEN n - 4
  ELSE IF n = 62 THEN 43 ELSE 47

B64Value(b) ==
  IF b >= 65 /\ b <= 90 THEN b - 65
  ELSE IF b >= 97 /\ b <= 122 THEN b - 71
  ELSE IF b >= 48 /\ b <= 57 THEN b + 4
  ELSE IF b = 43 THEN 62
  ELSE IF b = 47 THEN 63
  ELSE 0 - 1

RECURSIVE EncodeToString(_)
EncodeToString(b) ==
  IF Len(b) = 0 THEN <<>>
  ELSE IF Len(b) = 1 THEN
    <<B64Char(b[1] \div 4), B64Char((b[1] % 4) * 16), 61, 61>>
  ELSE IF Len(b) = 2 THEN
    <<B64Char(b[1] \div 4), B64Char((b[1] % 4) * 16 + b[2] \div 16),
      B64Char((b[2] % 16) * 4), 61>>
  ELSE
    <<B64Char(b[1] \div 4), B64Char((b[1] % 4) * 16 + b[2] \div 16),
      B64Char((b[2] % 16) * 4 + b[3] \div 64), B64Char(b[3] % 64)>>
      \o EncodeToString(SubSeq(b, 4, Len(b)))

\* a nil slice or map, and one that is not nil
Nil0 == [nil |-> TRUE, v |-> <<>>]
Val(v) == [nil |-> FALSE, v |-> v]

\* results of the parsing steps: ok, the value, and the place behind it
Fail == [ok |-> FALSE, v |-> <<>>, next |-> 0]
Got(v, next) == [ok |-> TRUE, v |-> v, next |-> next]

\* a parsed piece p in front of the result r of parsing what follows it
Prepend(p, r) == IF r.ok THEN Got(p \o r.v, r.next) ELSE Fail

\* DecodeString: the bytes of base64 text t, no place behind them
RECURSIVE DecodeString(_)
DecodeQuad(t, v) ==
  IF v[1] < 0 \/ v[2] < 0 THEN Fail
  ELSE IF Len(t) = 4 /\ t[3] = 61 /\ t[4] = 61 THEN Got(<<v[1] * 4 + v[2] \div 16>>, 0)
  ELSE IF v[3] < 0 THEN Fail
  ELSE IF Len(t) = 4 /\ t[4] = 61 THEN
    Got(<<v[1] * 4 + v[2] \div 16, (v[2] % 16) * 16 + v[3] \div 4>>, 0)
  ELSE IF v[4] < 0 THEN Fail
  ELSE Prepend(<<v[1] * 4 + v[2] \div 16, (v[2] % 16) * 16 + v[3] \div 4,
                 (v[3] % 4) * 64 + v[4]>>,
               DecodeString(SubSeq(t, 5, Len(t))))

DecodeString(t) ==
  IF Len(t) = 0 THEN Got(<<>>, 0)
  ELSE IF Len(t) < 4 THEN Fail
  ELSE DecodeQuad(t, [k \in 1..4 |-> B64Value(t[k])])

\* utf8.EncodeRune
EncodeRune(r) ==
  IF r < 128 THEN <<r>>
  ELSE IF r < 2048 THEN <<192 + r \div 64, 128 + (r % 64)>>
  ELSE IF r >= 55296 /\ r <= 57343 THEN RuneError
  ELSE IF r < 65536 THEN <<224 + r \div 4096, 128 + ((r \div 64) % 64), 128 + (r % 64)>>
  ELSE <<240 + r \div 262144, 128 + ((r \div 4096) % 64), 128 + ((r \div 64) % 64),
         128 + (r % 64)>>

\* the four hex digits at s[i..i+3] as a number, -1 when they are not hex digits
getu4(s, i) ==
  IF i + 3 > Len(s) \/ \E k \in 0..3 : HexValue(s[i + k]) < 0 THEN 0 - 1
  ELSE HexValue(s[i]) * 4096 + HexValue(s[i + 1]) * 256
       + HexValue(s[i + 2]) * 16 + HexValue(s[i + 3])

\* encoding/json unquote: the bytes that the character or escape at s[j] stands for
\* and its length in s; n = 0 when it is not allowed there
Unescaped(s, j) ==
  LET b == s[j]
      e == IF j + 1 <= Len(s) THEN s[j + 1] ELSE 0
      r1 == getu4(s, j + 2)
      r2 == IF j + 7 <= Len(s) /\ s[j + 6] = 92 /\ s[j + 7] = 117
            THEN getu4(s, j + 8) ELSE 0 - 1
  IN
  IF b = 92 THEN
    IF e \in {34, 92, 47} THEN [text |-> <<e>>, n |-> 2]
    ELSE IF e = 98 THEN [text |-> <<8>>, n |-> 2]            \* \b
    ELSE IF e = 102 THEN [text |-> <<12>>, n |-> 2]          \* \f
    ELSE IF e = 110 THEN [text |-> <<10>>, n |-> 2]          \* \n
    ELSE IF e = 114 THEN [text |-> <<13>>, n |-> 2]          \* \r
    ELSE IF e = 116 THEN [text |-> <<9>>, n |-> 2]           \* \t
    ELSE IF e = 117 /\ r1 >= 0 THEN                          \* \uxxxx
      IF r1 >= 55296 /\ r1 <= 56319 /\ r2 >= 56320 /\ r2 <= 57343
      THEN [text |-> EncodeRune(65536 + (r1 - 55296) * 1024 + (r2 - 56320)), n |-> 12]
      ELSE [text |-> EncodeRune(r1), n |-> 6]
    ELSE [text |-> <<>>, n |-> 0]
  ELSE IF b < 32 THEN [text |-> <<>>, n |-> 0]
  ELSE IF b < 128 THEN [text |-> <<b>>, n |-> 1]
  ELSE IF RuneLen(s, j) = 0 THEN [text |-> RuneError, n |-> 1]
  ELSE [text |-> SubSeq(s, j, j + RuneLen(s, j) - 1), n |-> RuneLen(s, j)]

\* the text of a string literal from byte j on, up to and with its closing quote
RECURSIVE unquote(_, _)
unquoteFrom(s, j, u) == IF u.n = 0 THEN Fail ELSE Prepend(u.text, unquote(s, j + u.n))
unquote(s, j) ==
  IF j > Len(s) THEN Fail
  ELSE IF s[j] = 34 THEN Got(<<>>, j + 1)
  ELSE unquoteFrom(s, j, Unescaped(s, j))

At(s, i, b) == i <= Len(s) /\ s[i] = b
IsNull(s, i) == i + 3 <= Len(s) /\ SubSeq(s, i, i + 3) = Txt(<<"n", "u", "l", "l">>)

\* a string literal that starts at s[i]
ParseString(s, i) == IF At(s, i, 34) THEN unquote(s, i + 1) ELSE Fail

\* the elements of an array of strings behind its "[" or behind a ","; e is the
\* first of them
RECURSIVE ParseElems(_, _)
ElemsFrom(s, e) ==
  IF ~e.ok THEN Fail
  ELSE IF At(s, e.next, 93) THEN Got(<<e.v>>, e.next + 1)
  ELSE IF At(s, e.next, 44) THEN Prepend(<<e.v>>, ParseElems(s, e.next + 1))
  ELSE Fail
ParseElems(s, i) == ElemsFrom(s, ParseString(s, i))

\* a parsed slice or map as a value that is not nil
NotNil(r) == IF r.ok THEN Got(Val(r.v), r.next) ELSE Fail

\* a []string: null, [] or [ "..", ".." ]
ParseStrings(s, i) ==
  IF IsNull(s, i) THEN Got(Nil0, i + 4)
  ELSE IF ~At(s, i, 91) THEN Fail
  ELSE IF At(s, i + 1, 93) THEN Got(Val(<<>>), i + 2)
  ELSE NotNil(ParseElems(s, i + 1))

\* the map m with value v under key k
Put(m, k, v) == [x \in DOMAIN m \cup {k} |-> IF x = k THEN v ELSE m[x]]

\* the members of the headers object behind its "{" or behind a ","; m is the map
\* so far, k the member's name, v its value
RECURSIVE ParseMembers(_, _, _)
MemberEnd(s, m, v) ==
  IF ~v.ok THEN Fail
  ELSE IF At(s, v.next, 125) THEN Got(m, v.next + 1)
  ELSE IF At(s, v.next, 44) THEN ParseMembers(s, v.next + 1, m)
  ELSE Fail
MemberValue(s, m, k, v) == IF ~v.ok THEN Fail ELSE MemberEnd(s, Put(m, k.v, v.v), v)
MemberFrom(s, m, k) ==
  IF ~k.ok \/ ~At(s, k.next, 58) THEN Fail
  ELSE MemberValue(s, m, k, ParseStrings(s, k.next + 1))
ParseMembers(s, i, m) == MemberFrom(s, m, ParseString(s, i))

\* a map[string][]string: null, {} or { "k": [..], .. }
ParseHeaders(s, i) ==
  IF IsNull(s, i) THEN Got(Nil0, i + 4)
  ELSE IF ~At(s, i, 123) THEN Fail
  ELSE IF At(s, i + 1, 125) THEN Got(Val(<<>>), i + 2)
  ELSE NotNil(ParseMembers(s, i + 1, <<>>))

\* a []byte: null or a string literal of base64 text
BytesOf(b, next) == IF b.ok THEN Got(Val(b.v), next) ELSE Fail
BytesFrom(t) == IF ~t.ok THEN Fail ELSE BytesOf(DecodeString(t.v), t.next)
ParseBytes(s, i) ==
  IF IsNull(s, i) THEN Got(Nil0, i + 4) ELSE BytesFrom(ParseString(s, i))

\* an int in decimal
RECURSIVE Digits(_)
Digits(n) == IF n < 10 THEN <<48 + n>> ELSE Digits(n \div 10) \o <<48 + (n % 10)>>
MarshalInt(n) == IF n < 0 THEN <<45>> \o Digits(0 - n) ELSE Digits(n)

RECURSIVE ParseDigits(_, _, _)
ParseDigits(s, i, acc) ==
  IF i <= Len(s) /\ s[i] >= 48 /\ s[i] <= 57
  THEN ParseDigits(s, i + 1, acc * 10 + s[i] - 48)
  ELSE Got(acc, i)

Negated(r) == Got(0 - r.v, r.next)
ParseInt(s, i) ==
  IF At(s, i, 45)
  THEN (IF i + 1 > Len(s) \/ s[i + 1] < 48 \/ s[i + 1] > 57 THEN Fail
        ELSE Negated(ParseDigits(s, i + 1, 0)))
  ELSE IF i > Len(s) \/ s[i] < 48 \/ s[i] > 57 THEN Fail
  ELSE ParseDigits(s, i, 0)

\* byte-wise order of two strings, and the keys of a map in that order
RECURSIVE Less(_, _)
Less(a, b) ==
  IF b = <<>> THEN FALSE
  ELSE IF a = <<>> THEN TRUE
  ELSE IF Head(a) # Head(b) THEN Head(a) < Head(b)
  ELSE Less(Tail(a), Tail(b))

Least(ks) == CHOOSE x \in ks : \A y \in ks \ {x} : Less(x, y)
RECURSIVE SortedKeys(_)
SortedFrom(ks, k) == <<k>> \o SortedKeys(ks \ {k})
SortedKeys(ks) == IF ks = {} THEN <<>> ELSE SortedFrom(ks, Least(ks))

\* the texts of a list joined with ","
RECURSIVE Join(_)
Join(texts) ==
  IF texts = <<>> THEN <<>>
  ELSE IF Len(texts) = 1 THEN texts[1]
  ELSE texts[1] \o <<44>> \o Join(Tail(texts))

\* json.Marshal of a []string, of a map[string][]string (keys sorted) and of a []byte
MarshalStrings(vs) ==
  IF vs.nil THEN Txt(<<"n", "u", "l", "l">>)
  ELSE <<91>> \o Join([i \in 1..Len(vs.v) |-> MarshalString(vs.v[i])]) \o <<93>>

MarshalMembers(m, ks) ==
  Join([i \in 1..Len(ks) |-> MarshalString(ks[i]) \o <<58>> \o MarshalStrings(m[ks[i]])])

MarshalHeaders(h) ==
  IF h.nil THEN Txt(<<"n", "u", "l", "l">>)
  ELSE <<123>> \o MarshalMembers(h.v, SortedKeys(DOMAIN h.v)) \o <<125>>

MarshalBytes(b) ==
  IF b.nil THEN Txt(<<"n", "u", "l", "l">>)
  ELSE <<34>> \o EncodeToString(b.v) \o <<34>>

KeyID == Txt(<<"i", "d">>)
KeyMethod == Txt(<<"m", "e", "t", "h", "o", "d">>)
KeyPath == Txt(<<"p", "a", "t", "h">>)
KeyStatusCode == Txt(<<"s", "t", "a", "t", "u", "s", "_", "c", "o", "d", "e">>)
KeyHeaders == Txt(<<"h", "e", "a", "d", "e", "r", "s">>)
KeyBody == Txt(<<"b", "o", "d", "y">>)

\* the zero values of the two message types
ZeroRequest == [ID |-> <<>>, Method |-> <<>>, Path |-> <<>>, Headers |-> Nil0, Body |-> Nil0]
ZeroResponse == [ID |-> <<>>, StatusCode |-> 0, Headers |-> Nil0, Body |-> Nil0]
IsRequest(v) == "Method" \in DOMAIN v

\* json.Marshal of a Request or a Response: the fields in declaration order
Marshal(v) ==
  <<123>> \o <<34>> \o KeyID \o <<34, 58>> \o MarshalString(v.ID) \o <<44>>
    \o (IF IsRequest(v)
        THEN <<34>> \o KeyMethod \o <<34, 58>> \o MarshalString(v.Method) \o <<44>>
             \o <<34>> \o KeyPath \o <<34, 58>> \o MarshalString(v.Path)
        ELSE <<34>> \o KeyStatusCode \o <<34, 58>> \o MarshalInt(v.StatusCode))
    \o <<44>> \o <<34>> \o KeyHeaders \o <<34, 58>> \o MarshalHeaders(v.Headers)
    \o <<44>> \o <<34>> \o KeyBody \o <<34, 58>> \o MarshalBytes(v.Body) \o <<125>>

\* the value v with the parsed value f in the field of member name k
SetField(v, k, f) ==
  IF k = KeyID THEN [v EXCEPT !.ID = f]
  ELSE IF k = KeyMethod THEN [v EXCEPT !.Method = f]
  ELSE IF k = KeyPath THEN [v EXCEPT !.Path = f]
  ELSE IF k = KeyStatusCode THEN [v EXCEPT !.StatusCode = f]
  ELSE IF k = KeyHeaders THEN [v EXCEPT !.Headers = f]
  ELSE [v EXCEPT !.Body = f]

\* the value of the member named k, by the type of its field
ParseField(s, j, v, k) ==
  IF k = KeyID \/ (k \in {KeyMethod, KeyPath} /\ IsRequest(v)) THEN ParseString(s, j)
  ELSE IF k = KeyStatusCode /\ ~IsRequest(v) THEN ParseInt(s, j)
  ELSE IF k = KeyHeaders THEN ParseHeaders(s, j)
  ELSE IF k = KeyBody THEN ParseBytes(s, j)
  ELSE Fail

\* the members of the message object behind its "{" or behind a ","; v is the value
\* filled so far, k the member's name, f its value
RECURSIVE ParseFields(_, _, _)
FieldEnd(s, v, f) ==
  IF At(s, f.next, 125) THEN Got(v, f.next + 1)
  ELSE IF At(s, f.next, 44) THEN ParseFields(s, f.next + 1, v)
  ELSE Fail
FieldValue(s, v, k, f) == IF ~f.ok THEN Fail ELSE FieldEnd(s, SetField(v, k.v, f.v), f)
FieldFrom(s, v, k) ==
  IF ~k.ok \/ ~At(s, k.next, 58) THEN Fail
  ELSE FieldValue(s, v, k, ParseField(s, k.next + 1, v, k.v))
ParseFields(s, i, v) == FieldFrom(s, v, ParseString(s, i))

\* json.Unmarshal(data, v) for the payloads json.Marshal writes: one object, members in
\* any order, nothing behind it
Whole(data, r) == IF r.ok /\ r.next = Len(data) + 1 THEN r ELSE Fail
Unmarshal(data, v) ==
  IF ~At(data, 1, 123) THEN Fail
  ELSE IF At(data, 2, 125) THEN (IF Len(data) = 2 THEN Got(v, 3) ELSE Fail)
  ELSE Whole(data, ParseFields(data, 2, v))

\* binary.Write / binary.Read of a uint32, big endian (the lengths here are far
\* below 2^31, where uint32(len(data)) is len(data))
PutUint32(n) == <<(n \div 16777216) % 256, (n \div 65536) % 256, (n \div 256) % 256, n % 256>>
Uint32(b) == b[1] * 16777216 + b[2] * 65536 + b[3] * 256 + b[4]

\* encodeMessage: the bytes it writes to w
Frame(msgType, data) == <<msgType>> \o PutUint32(Len(data)) \o data
encodeMessage(msgType, v) == Frame(msgType, Marshal(v))

EncodeRequest(req) == encodeMessage(TypeRequest, req)
EncodeResponse(resp) == encodeMessage(TypeResponse, resp)

\* what a decode returns: the error ("" for nil), the value, and the bytes of the
\* stream it has not read
Decoded(err, v, rest) == [err |-> err, v |-> v, rest |-> rest]
NoValue == [nil |-> TRUE]

\* the result of unmarshalling the payload
Unmarshalled(u, rest) ==
  IF u.ok THEN Decoded("", u.v, rest) ELSE Decoded("unmarshal", NoValue, rest)

\* a decodeMessage that reads the whole frame before it looks at the type byte
decodeMessageLate(r, expectedType, v) ==
  IF Len(r) < HeaderLen \/ Len(r) - HeaderLen < Uint32(SubSeq(r, 2, HeaderLen))
  THEN Decoded("read", NoValue, <<>>)
  ELSE IF r[1] # expectedType
  THEN Decoded("unexpected message type", NoValue,
               SubSeq(r, HeaderLen + Uint32(SubSeq(r, 2, HeaderLen)) + 1, Len(r)))
  ELSE Unmarshalled(Unmarshal(SubSeq(r, HeaderLen + 1,
                                      HeaderLen + Uint32(SubSeq(r, 2, HeaderLen))), v),
                    SubSeq(r, HeaderLen + Uint32(SubSeq(r, 2, HeaderLen)) + 1, Len(r)))

\* decodeMessage on the stream r; length is the frame's length field
readPayload(r, length, v) ==
  IF Len(r) - HeaderLen < length THEN Decoded("read payload", NoValue, <<>>)
  ELSE Unmarshalled(Unmarshal(SubSeq(r, HeaderLen + 1, HeaderLen + length), v),
                    SubSeq(r, HeaderLen + length + 1, Len(r)))

decodeMessage(r, expectedType, v) ==
  IF Len(r) = 0 THEN Decoded("read type", NoValue, <<>>)
  ELSE IF r[1] # expectedType THEN Decoded("unexpected message type", NoValue, Tail(r))
  ELSE IF Len(r) < HeaderLen THEN Decoded("read length", NoValue, <<>>)
  ELSE readPayload(r, Uint32(SubSeq(r, 2, HeaderLen)), v)

DecodeRequest(r) == decodeMessage(r, TypeRequest, ZeroRequest)
DecodeResponse(r) == decodeMessage(r, TypeResponse, ZeroResponse)

\* ------------------------------------------------------- the environment
Tick ==
  /\ ~panicked
  /\ UNCHANGED <<codec, client, locks>>
  /\ now < MaxTime
  /\ now' = now + 1
  /\ UNCHANGED <<tunnels, tokenValidator, nsess, tun, life, wr, pending, wire, hp,
                 ch, cl, panicked, accepted, atTerminal, connect>>

\* ------------------------------------------------------- specifications
GoodAuth == BearerPrefix \o <<"k">>

\* request ids are interchangeable: the first one used is "a"
FirstId(id) == id = "a" \/ \E q \in Reqs : hp[q].id # ""

\* public requests start in index order (they are interchangeable)
InOrder(r) == IF r = 1 THEN TRUE ELSE hp[r - 1].pc # "idle"

\* the goroutines of session t: waitForReady, flushPendingQueue, readLoop, the writer
SessionStep(t) ==
  \/ \E ok \in BOOLEAN : waitForReady_Decode(t, ok)
  \/ waitForReady_SetReady(t)
  \/ flushPendingQueue_Lock(t)
  \/ flushPendingQueue_Entry(t)
  \/ flushPendingQueue_End(t)
  \/ readLoop_Start(t)
  \/ readLoop_Top(t)
  \/ readLoop_DecodeErr(t)
  \/ \E id \in IDs : readLoop_Decode(t, id)
  \/ readLoop_Deliver(t)
  \/ readLoop_CloseCh(t)
  \/ \E viaDone \in BOOLEAN : writer_Select(t, viaDone)
  \/ \E o \in {"ok", "lost", "fail"} : writer_Write(t, o)
  \/ writer_FailSend(t)
  \/ writer_FailClose(t)

\* the body of a Close() call that passed the entry check
CloseStep(c) ==
  \/ Close_Signal(c)
  \/ Close_Conn(c)
  \/ Close_Drain(c)
  \/ Close_OnClose(c)

\* a public request for the host, once ServeHTTP has routed it to handleProxy
ProxyStep(r) ==
  \/ handleProxy_Lookup(r)
  \/ \E id \in IDs : FirstId(id) /\ handleProxy_State(r, id)
  \/ handleProxy_Enqueue(r)
  \/ \E viaDone \in BOOLEAN : handleProxy_Send(r, viaDone)
  \/ handleProxy_Receive(r)
  \/ handleProxy_Timeout(r)
  \/ handleProxy_Done(r)

\* Spec: one session under HostA with its goroutines and its peer, MaxReqs public
\* requests for it, and the clock. The session is closed by its own goroutines.
Next ==
  \/ nsess = 0 /\ handleConnect(HostA, GoodAuth, TRUE)
  \/ \E t \in Sessions : SessionStep(t)
  \/ \E c \in CloseCallers : CloseStep(c)
  \/ \E r \in 1..MaxReqs : InOrder(r) /\ ServeHTTP(r, HostA, PathApi)
  \/ \E r \in Reqs : ProxyStep(r)
  \/ Tick

Spec == Init /\ [][Next]_vars


\* SpecClose: one session, Close() calls from outside racing with the session's
\* own goroutines, and one public request.
NextClose ==
  \/ nsess = 0 /\ handleConnect(HostA, GoodAuth, TRUE)
  \/ \E t \in Sessions : SessionStep(t)
  \/ \E c \in ExtClosers, t \in Sessions : Close_Enter(c, t)
  \/ \E c \in CloseCallers : CloseStep(c)
  \/ ServeHTTP(1, HostA, PathApi)
  \/ ProxyStep(1)
  \/ Tick

SpecClose == Init /\ [][NextClose]_vars

\* SpecReg: up to MaxSessions handshakes for the same hostname, and one public request.
NextReg ==
  \/ handleConnect(HostA, GoodAuth, TRUE)
  \/ \E t \in Sessions : SessionStep(t)
  \/ \E c \in CloseCallers : CloseStep(c)
  \/ ServeHTTP(1, HostA, PathApi)
  \/ ProxyStep(1)
  \/ Tick

SpecReg == Init /\ [][NextReg]_vars

\* SpecAuth: handshakes with every kind of Authorization header, with and without
\* a TokenValidator, up to the sessions' Ready frame.
AuthHeaders ==
  { <<>>,
    BearerPrefix,
    <<"B", "e", "a", "r", "e", "r">>,
    <<"B", "a", "s", "i", "c", " ", "k">>,
    <<"b", "e", "a", "r", "e", "r", " ", "k">>,
    <<"k">>,
    BearerPrefix \o <<"k">>,
    BearerPrefix \o <<"x">>,
    BearerPrefix \o BearerPrefix }

InitAuth ==
  /\ tunnels = [d \in Names |-> Nil]
  /\ tokenValidator \in BOOLEAN
  /\ nsess = 0
  /\ tun = [t \in Sessions |-> NoTunnel]
  /\ life = [t \in Sessions |-> [pc |-> "off", fnow |-> 0, fidx |-> 0, pr |-> Nil, resp |-> NoResp,
                                  stray |-> 0, wl |-> "off"]]
  /\ wr = [t \in Sessions |-> [pc |-> "off", pr |-> Nil]]
  /\ pending = [t \in Sessions |-> [i \in IDs |-> Nil]]
  /\ wire = [t \in Sessions |-> <<>>]
  /\ hp = [r \in Reqs |-> [pc |-> "idle", host |-> <<>>, path |-> <<>>, tun |-> Nil,
                           state |-> "",
                           id |-> "", queuedAt |-> 0, out |-> NoOut]]
  /\ ch = [r \in Reqs |-> [buf |-> NoResp, closed |-> FALSE, log |-> <<>>]]
  /\ cl = [c \in CloseCallers |-> [pc |-> "idle", tun |-> Nil]]
  /\ now = 0
  /\ panicked = FALSE
  /\ accepted = [t \in Sessions |-> <<>>]
  /\ atTerminal = [t \in Sessions |-> [queued |-> {}, sent |-> {}]]
  /\ connect = NoConnect
  /\ codec = NoCodec
  /\ client = NoClient
  /\ locks = NoLocks

NextAuth ==
  \/ \E d \in {<<>>, HostA}, a \in AuthHeaders, h \in BOOLEAN : handleConnect(d, a, h)
  \/ \E t \in Sessions, ok \in BOOLEAN : waitForReady_Decode(t, ok)
  \/ \E t \in Sessions : waitForReady_SetReady(t)
  \/ \E c \in CloseCallers : CloseStep(c)

SpecAuth == InitAuth /\ [][NextAuth]_vars


\* SpecQueue: one session from the handshake through the drain of its pre-ready queue,
\* with the request-writing goroutine, MaxReqs public requests and the clock. The
\* peer sends its Ready frame or fails the handshake and then stays silent: the
\* response reader of readLoop takes no step.
QueueStep(t) ==
  \/ \E ok \in BOOLEAN : waitForReady_Decode(t, ok)
  \/ waitForReady_SetReady(t)
  \/ flushPendingQueue_Lock(t)
  \/ flushPendingQueue_Entry(t)
  \/ flushPendingQueue_End(t)
  \/ readLoop_Start(t)
  \/ \E viaDone \in BOOLEAN : writer_Select(t, viaDone)
  \/ \E o \in {"ok", "lost", "fail"} : writer_Write(t, o)
  \/ writer_FailSend(t)
  \/ writer_FailClose(t)

NextQueue ==
  \/ nsess = 0 /\ handleConnect(HostA, GoodAuth, TRUE)
  \/ \E t \in Sessions : QueueStep(t)
  \/ \E c \in CloseCallers : CloseStep(c)
  \/ \E r \in 1..MaxReqs : InOrder(r) /\ ServeHTTP(r, HostA, PathApi)
  \/ \E r \in Reqs : ProxyStep(r)
  \/ Tick

SpecQueue == Init /\ [][NextQueue]_vars


\* SpecLive: Spec with the scheduling the Go runtime gives: a goroutine that can take
\* a step is eventually run. That is assumed of the handleProxy calls, of the Close()
\* calls and of the lifecycle goroutine's steps that wait for nothing but a mutex
\* (the state store and the drain); nothing is assumed of the peer or the transport.
DrainStep(t) ==
  \/ waitForReady_SetReady(t)
  \/ flushPendingQueue_Lock(t)
  \/ flushPendingQueue_Entry(t)
  \/ flushPendingQueue_End(t)

Fairness ==
  /\ \A r \in Reqs : WF_vars(ProxyStep(r))
  /\ \A c \in CloseCallers : WF_vars(CloseStep(c))
  /\ \A t \in Sessions : WF_vars(DrainStep(t))

SpecLive == Init /\ [][Next]_vars /\ Fairness

\* SpecCloseLive: SpecClose with the scheduling of SpecLive.
SpecCloseLive == Init /\ [][NextClose]_vars /\ Fairness



\* SpecTasks: SpecClose with writeLoop, which touches nothing but its own position and
\* is left unscheduled in the other specifications, with every goroutine of the
\* session run whenever it can take a step. A Read or Write on the connection is
\* known to return only once the connection is closed.
LifeTask(t) ==
  \/ ConnDown(t) /\ \E ok \in BOOLEAN : waitForReady_Decode(t, ok)
  \/ ConnDown(t) /\ readLoop_DecodeErr(t)
  \/ ConnDown(t) /\ \E id \in IDs : readLoop_Decode(t, id)
  \/ readLoop_Start(t)
  \/ readLoop_Top(t)
  \/ readLoop_Deliver(t)
  \/ readLoop_CloseCh(t)

WriterTask(t) ==
  \/ \E viaDone \in BOOLEAN : writer_Select(t, viaDone)
  \/ ConnDown(t) /\ \E o \in {"ok", "lost", "fail"} : writer_Write(t, o)
  \/ writer_FailSend(t)
  \/ writer_FailClose(t)

TaskFairness ==
  \A t \in Sessions :
    WF_vars(LifeTask(t)) /\ WF_vars(WriterTask(t)) /\ WF_vars(writeLoop(t))

NextTasks ==
  \/ NextClose
  \/ \E t \in Sessions : writeLoop(t)

SpecTasks == Init /\ [][NextTasks]_vars /\ Fairness /\ TaskFairness

\* SpecBurst: SpecQueue with MaxBurst public requests, one more than the writer
\* channel holds, under the scheduling of SpecLive.
NextBurst ==
  \/ nsess = 0 /\ handleConnect(HostA, GoodAuth, TRUE)
  \/ \E t \in Sessions : QueueStep(t)
  \/ \E c \in CloseCallers : CloseStep(c)
  \/ \E r \in Reqs : InOrder(r) /\ ServeHTTP(r, HostA, PathApi)
  \/ \E r \in Reqs : ProxyStep(r)
  \/ Tick

SpecBurst == Init /\ [][NextBurst]_vars /\ Fairness

\* SpecRoute: public requests for every kind of host and path, before, during and
\* after the life of one session registered under HostA, up to the drain of its queue.
RouteHosts == {HostA, HostAPort, HostB, Localhost, Loopback, HostC}
RoutePaths == {PathHealth, PathStripe, PathStatic, PathDashboard, PathRoot, PathApi}

NextRoute ==
  \/ nsess = 0 /\ handleConnect(HostA, GoodAuth, TRUE)
  \/ \E t \in Sessions, ok \in BOOLEAN : waitForReady_Decode(t, ok)
  \/ \E t \in Sessions : DrainStep(t)
  \/ \E c \in CloseCallers : CloseStep(c)
  \/ \E r \in 1..MaxReqs, h \in RouteHosts, p \in RoutePaths : InOrder(r) /\ ServeHTTP(r, h, p)
  \/ \E r \in Reqs : ProxyStep(r)
  \/ Tick

SpecRoute == Init /\ [][NextRoute]_vars


\* SpecCodec: the frame codec on its own. A Request or a Response is drawn, written
\* to a stream up to MaxFrames times by its encoder; the stream may lose its tail; the
\* reader decodes frame after frame with either decoder until one returns an error.
SeqsUpTo(S, n) == UNION {[1..k -> S] : k \in 0..n}

StrSamples ==
  { <<>>, Txt(<<"a">>), Txt(<<"\"", "\\">>), <<10>>, Txt(<<"<", "&", ">">>),
    <<195, 169>>,           \* U+00E9
    <<226, 128, 168>>,      \* U+2028
    <<239, 191, 189>>,      \* U+FFFD
    <<240, 159, 152, 128>>, \* U+1F600
    <<255>>,                \* not UTF-8
    <<195>>,                \* a lead byte without its continuation
    <<237, 160, 128>> }     \* a surrogate, not UTF-8

BodyBytes == {0, 255}
Bodies == {Nil0} \cup {Val(b) : b \in SeqsUpTo(BodyBytes, MaxBody)}

ValueStrs == {Txt(<<"v">>), Txt(<<"w">>), <<255>>}
ValueLists == {Nil0} \cup {Val(vs) : vs \in SeqsUpTo(ValueStrs, MaxValues)}

HeaderMaps ==
  {Nil0, Val(<<>>), Val([k \in {<<255>>} |-> Val(<<Txt(<<"v">>)>>)])}
    \cup {Val([k \in {Txt(<<"k">>)} |-> vs]) : vs \in ValueLists}
    \cup {Val([k \in {Txt(<<"k">>), Txt(<<"A">>)} |->
                IF k = Txt(<<"k">>) THEN vs ELSE Val(<<Txt(<<"v">>)>>)]) : vs \in ValueLists}

\* the Requests vary in their strings and headers, the Responses in their bodies
Requests ==
  [ID : StrSamples, Method : {Txt(<<"G", "E", "T">>)},
   Path : {Txt(<<"/">>), Txt(<<"/">>) \o <<195, 169>>},
   Headers : HeaderMaps, Body : {Nil0, Val(<<0, 255>>)}]

Responses ==
  [ID : {Txt(<<"a">>), <<255>>}, StatusCode : {200, 0, 0 - 1},
   Headers : {Nil0, Val([k \in {Txt(<<"k">>)} |-> Val(<<Txt(<<"v">>)>>)])}, Body : Bodies]

InitCodec ==
  /\ tunnels = [d \in Names |-> Nil]
  /\ tokenValidator = FALSE
  /\ nsess = 0
  /\ tun = [t \in Sessions |-> NoTunnel]
  /\ life = [t \in Sessions |-> [pc |-> "off", fnow |-> 0, fidx |-> 0, pr |-> Nil, resp |-> NoResp,
                                  stray |-> 0, wl |-> "off"]]
  /\ wr = [t \in Sessions |-> [pc |-> "off", pr |-> Nil]]
  /\ pending = [t \in Sessions |-> [i \in IDs |-> Nil]]
  /\ wire = [t \in Sessions |-> <<>>]
  /\ hp = [r \in Reqs |-> [pc |-> "idle", host |-> <<>>, path |-> <<>>, tun |-> Nil,
                           state |-> "",
                           id |-> "", queuedAt |-> 0, out |-> NoOut]]
  /\ ch = [r \in Reqs |-> [buf |-> NoResp, closed |-> FALSE, log |-> <<>>]]
  /\ cl = [c \in CloseCallers |-> [pc |-> "idle", tun |-> Nil]]
  /\ now = 0
  /\ panicked = FALSE
  /\ accepted = [t \in Sessions |-> <<>>]
  /\ atTerminal = [t \in Sessions |-> [queued |-> {}, sent |-> {}]]
  /\ connect = NoConnect
  /\ \E m \in Requests \cup Responses :
       codec = [pc |-> "input", msg |-> m, w |-> <<>>, frames |-> <<>>, cut |-> FALSE,
                got |-> <<>>]
  /\ client = NoClient
  /\ locks = NoLocks

relayVars == <<tunnels, tokenValidator, nsess, tun, life, wr, pending, wire,
               hp, ch, cl, now, panicked, accepted, atTerminal, connect>>

\* EncodeRequest(w, req) / EncodeResponse(w, resp) on the stream
Written(f) == [codec EXCEPT !.pc = "written", !.w = @ \o f, !.frames = Append(@, f)]
Codec_Encode ==
  /\ codec.pc \in {"input", "written"}
  /\ Len(codec.frames) < MaxFrames
  /\ codec' = Written(IF IsRequest(codec.msg) THEN EncodeRequest(codec.msg)
                      ELSE EncodeResponse(codec.msg))
  /\ UNCHANGED <<relayVars, client, locks>>

\* the connection breaks: the reader gets the first n bytes only
Codec_Cut(n) ==
  /\ codec.pc = "written"
  /\ n < Len(codec.w)
  /\ codec' = [codec EXCEPT !.pc = "cut", !.w = SubSeq(@, 1, n), !.cut = TRUE]
  /\ UNCHANGED <<relayVars, client, locks>>

CanDecode ==
  \/ codec.pc \in {"written", "cut"}
  \/ codec.pc = "read" /\ codec.got[Len(codec.got)].err = "" /\ codec.w # <<>>

\* the exchange after a decode of type t returned d
Read(t, d) ==
  [codec EXCEPT !.pc = "read", !.w = d.rest,
                !.got = Append(@, [type |-> t, before |-> codec.w, err |-> d.err,
                                   v |-> d.v])]

\* DecodeRequest(r) / DecodeResponse(r) on the stream
Codec_DecodeRequest ==
  /\ CanDecode
  /\ codec' = Read(TypeRequest, DecodeRequest(codec.w))
  /\ UNCHANGED <<relayVars, client, locks>>

Codec_DecodeResponse ==
  /\ CanDecode
  /\ codec' = Read(TypeResponse, DecodeResponse(codec.w))
  /\ UNCHANGED <<relayVars, client, locks>>

\* where the stream may break: in the header, right behind it, in the payload
CutPoints == {0, 1, HeaderLen - 1, HeaderLen, HeaderLen + 1}

NextCodec ==
  \/ Codec_Encode
  \/ \E n \in CutPoints : Codec_Cut(n)
  \/ Codec_DecodeRequest
  \/ Codec_DecodeResponse

SpecCodec == InitCodec /\ [][NextCodec]_vars

\* ---------------------------------------------------------- the tunnel client
\* SpecClient: Client.Run on its own. The relay's side of the connection is the
\* environment: it places Request frames on the connection, and a write to the
\* connection may fail at any time. The frames are kept as records (their bytes are
\* SpecCodec's matter): out holds the frames that reached the connection, read the
\* ids of the Request frames DecodeRequest returned.
MaxClientReqs == 3

ReadyFrame == [type |-> "Ready", id |-> "", code |-> 0]
ResponseFrame(resp) == [type |-> "Response", id |-> resp.id, code |-> resp.code]

InitClient ==
  /\ tunnels = [d \in Names |-> Nil]
  /\ tokenValidator = FALSE
  /\ nsess = 0
  /\ tun = [t \in Sessions |-> NoTunnel]
  /\ life = [t \in Sessions |-> [pc |-> "off", fnow |-> 0, fidx |-> 0, pr |-> Nil, resp |-> NoResp,
                                  stray |-> 0, wl |-> "off"]]
  /\ wr = [t \in Sessions |-> [pc |-> "off", pr |-> Nil]]
  /\ pending = [t \in Sessions |-> [i \in IDs |-> Nil]]
  /\ wire = [t \in Sessions |-> <<>>]
  /\ hp = [r \in Reqs |-> [pc |-> "idle", host |-> <<>>, path |-> <<>>, tun |-> Nil,
                           state |-> "",
                           id |-> "", queuedAt |-> 0, out |-> NoOut]]
  /\ ch = [r \in Reqs |-> [buf |-> NoResp, closed |-> FALSE, log |-> <<>>]]
  /\ cl = [c \in CloseCallers |-> [pc |-> "idle", tun |-> Nil]]
  /\ now = 0
  /\ panicked = FALSE
  /\ accepted = [t \in Sessions |-> <<>>]
  /\ atTerminal = [t \in Sessions |-> [queued |-> {}, sent |-> {}]]
  /\ connect = NoConnect
  /\ codec = NoCodec
  /\ client = [NoClient EXCEPT !.pc = "connect"]
  /\ locks = NoLocks

\* Run: c.Connect(ctx) dials, sends the handshake and reads its answer
Run_Connect(ok) ==
  /\ client.pc = "connect"
  /\ client' = IF ok THEN [client EXCEPT !.pc = "ready"]
               ELSE [client EXCEPT !.pc = "failed", !.ret = TRUE]
  /\ UNCHANGED <<relayVars, codec, locks>>

\* Run without its Ready frame
Run_SkipReady(ok) ==
  /\ client.pc = "ready"
  /\ client' = IF ok THEN [client EXCEPT !.pc = "loop"]
               ELSE [client EXCEPT !.pc = "failed", !.ret = TRUE, !.conn = TRUE]
  /\ UNCHANGED <<relayVars, codec, locks>>

\* Run: EncodeReady and Flush, the onReady callback, the loop's goroutine started;
\* a failure closes the connection and returns
Run_EncodeReady(ok) ==
  /\ client.pc = "ready"
  /\ client' = IF ok THEN [client EXCEPT !.pc = "loop", !.out = Append(@, ReadyFrame)]
               ELSE [client EXCEPT !.pc = "failed", !.ret = TRUE, !.conn = TRUE]
  /\ UNCHANGED <<relayVars, codec, locks>>

\* the loop: the context check, then DecodeRequest, which returns the next Request
\* frame (one that bufio already holds is returned even behind a closed connection)
\* or the connection's error
Run_DecodeRequest(ok) ==
  /\ \/ /\ client.pc = "loop"
        /\ ok
        /\ client' = IF client.ctx THEN [client EXCEPT !.pc = "exit", !.errCh = TRUE]
                     ELSE [client EXCEPT !.pc = "decode"]
     \/ /\ client.pc = "decode"
        /\ ok
        /\ client.inbox # <<>>
        /\ client' = [client EXCEPT !.pc = "forward", !.req = Head(client.inbox),
                                    !.inbox = Tail(@), !.read = Append(@, Head(client.inbox))]
     \/ /\ client.pc = "decode"
        /\ ~ok
        /\ client' = [client EXCEPT !.pc = "exit", !.errCh = TRUE]
  /\ UNCHANGED <<relayVars, codec, locks>>

\* forwardRequest and the caller's handling of its error: the local server's
\* response, or a 502 in its place; both carry req.ID
forwardRequest(ok) ==
  /\ client.pc = "forward"
  /\ client' = [client EXCEPT !.pc = "encode",
                              !.resp = [id |-> client.req,
                                        code |-> IF ok THEN 200 ELSE 502]]
  /\ UNCHANGED <<relayVars, codec, locks>>

\* the loop: EncodeResponse into bufio (its error ends the loop: bufio returns the
\* error of an earlier failed flush to every later write), then Flush, whose
\* error is dropped
Run_EncodeResponse(ok) ==
  /\ client.pc = "encode"
  /\ client' =
       IF client.bufErr THEN [client EXCEPT !.pc = "exit", !.errCh = TRUE]
       ELSE IF ok /\ ~client.conn
         THEN [client EXCEPT !.pc = "loop", !.out = Append(@, ResponseFrame(client.resp))]
         ELSE [client EXCEPT !.pc = "loop", !.bufErr = TRUE]
  /\ UNCHANGED <<relayVars, codec, locks>>

\* Run's final select: the context is done or the loop reported an error; the
\* connection is closed and Run returns
Run_Return ==
  /\ client.pc \in {"loop", "decode", "forward", "encode", "exit"}
  /\ ~client.ret
  /\ client.ctx \/ client.errCh
  /\ client' = [client EXCEPT !.ret = TRUE, !.conn = TRUE]
  /\ UNCHANGED <<relayVars, codec, locks>>

\* the environment: the relay writes a Request frame to the connection
Relay_Request(id) ==
  /\ client.pc # "off"
  /\ Len(client.read) + Len(client.inbox) < MaxClientReqs
  /\ client' = [client EXCEPT !.inbox = Append(@, id)]
  /\ UNCHANGED <<relayVars, codec, locks>>

\* the environment: Run's context is cancelled
Ctx_Cancel ==
  /\ client.pc # "off"
  /\ ~client.ctx
  /\ client' = [client EXCEPT !.ctx = TRUE]
  /\ UNCHANGED <<relayVars, codec, locks>>

NextClient ==
  \/ \E ok \in BOOLEAN : Run_Connect(ok)
  \/ \E ok \in BOOLEAN : Run_EncodeReady(ok)
  \/ \E ok \in BOOLEAN : Run_DecodeRequest(ok)
  \/ \E ok \in BOOLEAN : forwardRequest(ok)
  \/ \E ok \in BOOLEAN : Run_EncodeResponse(ok)
  \/ Run_Return
  \/ \E id \in IDs : Relay_Request(id)
  \/ Ctx_Cancel

SpecClient == InitClient /\ [][NextClient]_vars

\* ------------------------------------------------------------------ the locks
\* SpecLocks: the lock operations of the relay on their own. A task runs one
\* operation of the code, as the sequence of the lock operations and of the other
\* blocking or outward operations (wire I/O, a channel send, the on-close callback)
\* that the operation executes, in the code's order. The locks are s.mu ("reg"),
\* t.stateMu ("state") and t.queueMu ("queue") of one session. A sync.RWMutex
\* admits no new reader once a writer waits for it: Lock is the two steps Want
\* (the writer waits) and Lock (the writer has the lock).
MaxLockTasks == 3

LockTasks == 1..MaxLockTasks
Mutexes == {"reg", "state", "queue"}

Op(op, mu) == [op |-> op, mu |-> mu]
Lock(mu) == <<Op("Want", mu), Op("Lock", mu)>>
Unlock(mu) == <<Op("Unlock", mu)>>
RLock(mu) == <<Op("RLock", mu)>>
RUnlock(mu) == <<Op("RUnlock", mu)>>
Do(op) == <<Op(op, "")>>

\* a Close() that unlocks stateMu by defer, at its return
CloseLocksDeferred(first) ==
  IF first
  THEN Lock("state") \o Do("io") \o Lock("queue") \o Do("send") \o Unlock("queue")
         \o Do("callback") \o Lock("reg") \o Unlock("reg") \o Unlock("state")
  ELSE Lock("state") \o Unlock("state")

\* Close: the entry check under stateMu; for the first call cancel, close(done) and
\* conn.Close, the drain under queueMu, and onClose, which is UnregisterTunnel
CloseLocks(first) ==
  IF first
  THEN Lock("state") \o Unlock("state") \o Do("io") \o Lock("queue") \o Do("send")
         \o Unlock("queue") \o Do("callback") \o Lock("reg") \o Unlock("reg")
  ELSE Lock("state") \o Unlock("state")

LockKinds ==
  {"handleProxy/closed", "handleProxy/queue", "handleProxy/direct", "waitForReady",
   "Close", "Close/closed", "RegisterTunnel", "UnregisterTunnel", "HasTunnel"}

\* what each operation does with the locks
LockProgram(kind) ==
  CASE kind = "handleProxy/closed" ->
         RLock("reg") \o RUnlock("reg") \o RLock("state") \o RUnlock("state") \o Do("io")
    [] kind = "handleProxy/queue" ->
         RLock("reg") \o RUnlock("reg") \o RLock("state") \o RUnlock("state") \o Do("io")
           \o Lock("queue") \o Unlock("queue") \o Do("io")
    [] kind = "handleProxy/direct" ->
         RLock("reg") \o RUnlock("reg") \o RLock("state") \o RUnlock("state") \o Do("io")
           \o Do("send")
    [] kind = "waitForReady" ->
         Do("io") \o Lock("state") \o Unlock("state")
           \o Lock("queue") \o Do("send") \o Unlock("queue")
    [] kind = "Close" -> CloseLocks(TRUE)
    [] kind = "Close/closed" -> CloseLocks(FALSE)
    [] kind = "RegisterTunnel" -> Lock("reg") \o Unlock("reg")
    [] kind = "UnregisterTunnel" -> Lock("reg") \o Unlock("reg")
    [] OTHER -> RLock("reg") \o RUnlock("reg")

FreeMutex == [w |-> 0, r |-> {}, q |-> {}]

InitLocks ==
  /\ tunnels = [d \in Names |-> Nil]
  /\ tokenValidator = FALSE
  /\ nsess = 0
  /\ tun = [t \in Sessions |-> NoTunnel]
  /\ life = [t \in Sessions |-> [pc |-> "off", fnow |-> 0, fidx |-> 0, pr |-> Nil, resp |-> NoResp,
                                  stray |-> 0, wl |-> "off"]]
  /\ wr = [t \in Sessions |-> [pc |-> "off", pr |-> Nil]]
  /\ pending = [t \in Sessions |-> [i \in IDs |-> Nil]]
  /\ wire = [t \in Sessions |-> <<>>]
  /\ hp = [r \in Reqs |-> [pc |-> "idle", host |-> <<>>, path |-> <<>>, tun |-> Nil,
                           state |-> "",
                           id |-> "", queuedAt |-> 0, out |-> NoOut]]
  /\ ch = [r \in Reqs |-> [buf |-> NoResp, closed |-> FALSE, log |-> <<>>]]
  /\ cl = [c \in CloseCallers |-> [pc |-> "idle", tun |-> Nil]]
  /\ now = 0
  /\ panicked = FALSE
  /\ accepted = [t \in Sessions |-> <<>>]
  /\ atTerminal = [t \in Sessions |-> [queued |-> {}, sent |-> {}]]
  /\ connect = NoConnect
  /\ codec = NoCodec
  /\ client = NoClient
  /\ \E kinds \in [LockTasks -> LockKinds] :
       locks = [kind |-> kinds, pc |-> [k \in LockTasks |-> 1],
                mu |-> [m \in Mutexes |-> FreeMutex]]

\* the operation task k executes next; "end" behind its last
NextOp(k) ==
  IF locks.pc[k] <= Len(LockProgram(locks.kind[k]))
  THEN LockProgram(locks.kind[k])[locks.pc[k]]
  ELSE Op("end", "")

\* the operation can be executed now: a reader needs the lock free of a writer and
\* of waiting writers, a writer needs it free
CanStep(k) ==
  LET o == NextOp(k) IN
  CASE o.op = "RLock" -> locks.mu[o.mu].w = 0 /\ locks.mu[o.mu].q = {}
    [] o.op = "Lock" -> locks.mu[o.mu].w = 0 /\ locks.mu[o.mu].r = {}
    [] o.op = "end" -> FALSE
    [] OTHER -> TRUE

\* the lock after task k executed o on it
Locked(m, o, k) ==
  CASE o.op = "RLock" -> [m EXCEPT !.r = @ \cup {k}]
    [] o.op = "RUnlock" -> [m EXCEPT !.r = @ \ {k}]
    [] o.op = "Want" -> [m EXCEPT !.q = @ \cup {k}]
    [] o.op = "Lock" -> [m EXCEPT !.w = k, !.q = @ \ {k}]
    [] OTHER -> [m EXCEPT !.w = 0]

\* task k executes its next operation
LockStep(k) ==
  /\ CanStep(k)
  /\ LET o == NextOp(k) IN
     locks' = [locks EXCEPT !.pc[k] = @ + 1,
                            !.mu = IF o.mu = "" THEN @
                                   ELSE [@ EXCEPT ![o.mu] = Locked(@, o, k)]]
  /\ UNCHANGED <<relayVars, codec, client>>

NextLocks == \E k \in LockTasks : LockStep(k)

SpecLocks == InitLocks /\ [][NextLocks]_vars

\* ------------------------------------------------------------- the claims
Returned(c) == cl[c].pc = "returned"

\* the session's goroutines are over: Close() has returned to the lifecycle goroutine
\* and the request-writing goroutine has exited, so nothing of t sends any more
Quiescent(t) == Returned(LC(t)) /\ life[t].pc = "closing" /\ wr[t].pc \in {"off", "exit"}

\* C1: once a session's Close() has returned and its goroutines are over, every request
\* that was queued, on the writer channel or in the in-flight table when the session
\* turned Closed has had exactly one value sent on its respCh.
C1_HeldAnsweredOnce ==
  \A t \in Sessions :
    Quiescent(t) =>
      \A r \in atTerminal[t].queued \cup atTerminal[t].sent :
        Len(ch[r].log) = 1

LegalMove(a, b) ==
  \/ a = b
  \/ a = TunnelStateConnected /\ b = TunnelStateReady
  \/ a = TunnelStateConnected /\ b = TunnelStateClosed
  \/ a = TunnelStateReady /\ b = TunnelStateClosed

\* C2: every step moves a session's state along Connected -> Ready -> Closed or
\* Connected -> Closed: never Ready -> Connected, never out of Closed.
C2_StateMonotone ==
  [][\A t \in Sessions : LegalMove(tun[t].state, tun'[t].state)]_vars

\* the Close() calls on t that passed the entry check and ran the close path
CloseBodies(t) == {c \in CloseCallers : cl[c].tun = t /\ cl[c].pc \notin {"idle", "noop"}}

\* C3: however many Close() calls run on a session, the on-close callback runs at
\* most once, the connection is closed at most once, and at most one call gets past
\* the entry check (the others are no-ops).
C3_CloseOnce ==
  \A t \in Sessions :
    /\ tun[t].onCloseCalls <= 1
    /\ tun[t].connCloses <= 1
    /\ Cardinality(CloseBodies(t)) <= 1

\* the step in which handleProxy r, having read Connected, takes the queue branch on t
Placing(r, t) ==
  /\ hp[r].pc = "place" /\ hp[r].state = TunnelStateConnected /\ hp[r].tun = t
  /\ hp'[r].pc # "place"

\* C4: the pre-ready queue never holds more than MaxPendingQueue entries, and a request
\* that finds MaxPendingQueue entries in it is answered 503 with Retry-After: 1 in
\* that step and is not queued.
C4_QueueBound ==
  [][\A t \in Sessions :
       /\ Len(tun'[t].pendingQueue) <= MaxPendingQueue
       /\ \A r \in Reqs :
            (Placing(r, t) /\ Len(tun[t].pendingQueue) >= MaxPendingQueue) =>
              /\ hp'[r].pc = "done"
              /\ hp'[r].out.code = 503
              /\ hp'[r].out.retry = "1"
              /\ tun'[t].pendingQueue = tun[t].pendingQueue
              /\ ch'[r] = ch[r]]_vars

C4_Witness ==
  \E r \in Reqs :
    /\ hp[r].pc = "done" /\ hp[r].out.code = 503 /\ hp[r].out.retry = "1"
    /\ hp[r].tun # Nil
    /\ Len(tun[hp[r].tun].pendingQueue) = MaxPendingQueue

\* request r was failed with the queue-timeout response
QueueTimedOut(r) ==
  \E i \in 1..Len(ch[r].log) :
    ch[r].log[i].kind = "resp" /\ Contains(ch[r].log[i].body, "timeout")

\* request r is on the writer channel, with the writer, in flight or on the wire
WithWriter(r) ==
  \E t \in Sessions :
    \/ r \in Range(tun[t].reqCh)
    \/ r \in Range(wire[t])
    \/ \E i \in IDs : pending[t][i] = r
    \/ wr[t].pr = r

\* C5: the drain gives every entry older than PendingQueueTTL a 503 whose body contains
\* "timeout", and does not put it on the writer channel; a request failed that way is
\* never with the writer or on the wire.
C5_ExpiredFailed ==
  [][\A t \in Sessions :
       /\ (life[t].pc = "flush" /\ life'[t].fidx = life[t].fidx + 1) =>
            LET pr == tun[t].pendingQueue[life[t].fidx] IN
            (life[t].fnow - hp[pr].queuedAt > PendingQueueTTL) =>
              /\ ch'[pr].buf.kind = "resp"
              /\ ch'[pr].buf.status = 503
              /\ Contains(ch'[pr].buf.body, "timeout")
              /\ tun'[t].reqCh = tun[t].reqCh
       /\ \A r \in Reqs : QueueTimedOut(r)' => ~WithWriter(r)']_vars

C5_Witness == \E r \in Reqs : QueueTimedOut(r) /\ hp[r].pc = "done" /\ hp[r].out.code = 503

\* C6: when a second session has been registered for a hostname, the first one is
\* no longer the registry's entry and is Closed.
C6_ReplacedIsClosed ==
  \A t1, t2 \in 1..nsess :
    (t1 < t2 /\ tun[t1].Domain = tun[t2].Domain) =>
      /\ tunnels[tun[t1].Domain] # t1
      /\ tun[t1].state = TunnelStateClosed

\* C7: every Response sent on a request's respCh carries that request's id, and so
\* does the Response the reader is about to deliver.
C7_CorrelatedById ==
  /\ \A r \in Reqs : \A i \in 1..Len(ch[r].log) :
       ch[r].log[i].kind = "resp" => ch[r].log[i].id = hp[r].id
  /\ \A t \in Sessions :
       life[t].pc = "deliver" => life[t].resp.id = hp[life[t].pr].id

\* two requests with distinct ids were written; the second got the peer's response first
C7_Witness ==
  \E t \in Sessions, r1, r2 \in Reqs :
    /\ wire[t] = <<r1, r2>>
    /\ hp[r1].id # hp[r2].id
    /\ ch[r1].log = <<>>
    /\ ch[r2].log = <<Resp(hp[r2].id, 200, BodyPeer)>>

Pos(q, x) == CHOOSE k \in 1..Len(q) : q[k] = x

\* C8: the Request frames of a session are on the wire in the order in which
\* handleProxy placed the requests (queued or sent directly).
C8_WireInAcceptOrder ==
  \A t \in Sessions : \A i, j \in 1..Len(wire[t]) :
    i < j => Pos(accepted[t], wire[t][i]) < Pos(accepted[t], wire[t][j])

WellFormedBearer(a) ==
  Len(a) > Len(BearerPrefix) /\ SubSeq(a, 1, Len(BearerPrefix)) = BearerPrefix

RejectedAuth(a) ==
  \/ ~WellFormedBearer(a)
  \/ tokenValidator /\ SubSeq(a, Len(BearerPrefix) + 1, Len(a)) \notin ValidTokens

\* C9: a handshake with X-Lobber-Domain and no Authorization header, or one that is not
\* "Bearer <non-empty token>", or a token the validator rejects, is answered 401,
\* creates no session and leaves the registry as it was.
C9_AuthGate ==
  [][(connect' # connect /\ connect'.domain # <<>> /\ RejectedAuth(connect'.auth)) =>
       /\ connect'.code = 401
       /\ connect'.session = Nil
       /\ tunnels' = tunnels
       /\ nsess' = nsess
       /\ tun' = tun]_vars

C9_Witness ==
  /\ nsess = 1
  /\ connect.code = 401
  /\ connect.domain = HostA
  /\ connect.auth \in {<<>>, <<"B", "a", "s", "i", "c", " ", "k">>, BearerPrefix \o <<"x">>}

\* C10: in the step in which a Close() that ran the close path returns, the pre-ready
\* queue is empty and every request that was queued when the Close() began has exactly
\* the 503 "tunnel closed" response on its respCh.
C10_CloseDrainsQueue ==
  [][\A c \in CloseCallers :
       (cl[c].pc = "onClose" /\ cl'[c].pc = "returned") =>
         /\ tun'[cl[c].tun].pendingQueue = <<>>
         /\ \A r \in atTerminal[cl[c].tun].queued :
              /\ Len(ch'[r].log) = 1
              /\ ch'[r].log[1].kind = "resp"
              /\ ch'[r].log[1].status = 503
              /\ Contains(ch'[r].log[1].body, "closed")]_vars

\* C11: once a Close() call that ran the close path on a session has returned, the
\* registry's entry for the session's domain is not that session.
C11_ClosedUnregistered ==
  \A c \in CloseCallers :
    Returned(c) => tunnels[tun[cl[c].tun].Domain] # cl[c].tun

\* a Close() from outside has returned, and so has the one of the session's own
\* goroutine (the handshake failed or the read loop ended)
C11_Witness ==
  \E c \in ExtClosers, t \in Sessions :
    /\ Returned(c) /\ cl[c].tun = t
    /\ cl[LC(t)].pc \in {"returned", "noop"}
    /\ tun[t].Domain = HostA /\ ~HasTunnel(tunnels, HostA)

\* C12: a handleProxy call that has read the state and is placing its request, or has
\* placed it and waits for the result, on a session that is Closed, eventually
\* returns an answer to its caller.
C12_ClosedReleasesCallers ==
  \A r \in Reqs :
    (hp[r].pc \in {"place", "wait"} /\ tun[hp[r].tun].state = TunnelStateClosed)
      ~> (hp[r].pc = "done")

\* the lifecycle goroutine of t is past flushPendingQueue and in readLoop
Drained(t) == life[t].pc \in {"readStart", "readTop", "decode", "deliver", "closeCh"}

\* C13: once the drain on the transition to Ready is over, no request is in the
\* pre-ready queue: every request accepted while Connected went to the writer channel
\* or was failed by the drain.
C13_NoneLeftQueued ==
  \A t \in Sessions : Drained(t) => tun[t].pendingQueue = <<>>

\* the step in which ServeHTTP takes up request r
Routing(r) == hp[r].pc = "idle" /\ hp'[r].pc # "idle"

\* C14: a request whose Host, with its port removed, names a registered session that
\* is not Closed is handed to that session by handleProxy's lookup, port or no port.
C14_PortStrippedDispatch ==
  [][\A r \in Reqs :
       LET h == stripPort(hp[r].host) IN
       (/\ hp[r].pc = "lookup" /\ hp'[r].pc # "lookup"
        /\ HasTunnel(tunnels, h)
        /\ tun[tunnels[h]].state # TunnelStateClosed) =>
         /\ hp'[r].pc = "state"
         /\ hp'[r].tun = tunnels[h]]_vars

\* the paths ServeHTTP calls its internal routes
InternalRoute(path) == path \in {PathHealth, PathConnect, PathStripe}

\* the host, port removed, has no session and is neither BaseDomain nor a loopback name
UnknownHost(h) ==
  /\ ~HasTunnel(tunnels, stripPort(h))
  /\ stripPort(h) \notin {BaseDomain, Localhost, Loopback, <<>>}

\* C15: ServeHTTP answers 502 "tunnel not found", and never anything else, a request
\* whose path is not an internal route and whose Host, port removed, has no session
\* and is neither BaseDomain nor a loopback name.
C15_UnknownHost502 ==
  [][\A r \in Reqs :
       (Routing(r) /\ ~InternalRoute(hp'[r].path) /\ UnknownHost(hp'[r].host)) =>
         /\ hp'[r].pc = "done"
         /\ hp'[r].out = Out(502, <<"tunnel", "not", "found">>)]_vars

\* the same for the requests that get as far as host resolution: holds
HostResolution502 ==
  [][\A r \in Reqs :
       (Routing(r) /\ ~OwnRoute(hp'[r].path) /\ UnknownHost(hp'[r].host)) =>
         /\ hp'[r].pc = "done"
         /\ hp'[r].out = Out(502, <<"tunnel", "not", "found">>)]_vars

\* C16: for a host with a registered session, ServeHTTP hands every request whose
\* path is neither /health nor /_lobber/connect to handleProxy.
C16_AllPathsDelegated ==
  [][\A r \in Reqs :
       (/\ Routing(r)
        /\ hp'[r].path \notin {PathHealth, PathConnect}
        /\ HasTunnel(tunnels, stripPort(hp'[r].host))) =>
         hp'[r].pc = "lookup"]_vars

\* session t is registered and still waits for its peer's Ready frame
AwaitingReady(t) ==
  /\ life[t].pc = "waitReady" /\ tun[t].state = TunnelStateConnected
  /\ tunnels[tun[t].Domain] = t

ValidHeaders(h) ==
  h.nil \/ \A k \in DOMAIN h.v :
             /\ ValidString(k)
             /\ h.v[k].nil \/ \A i \in 1..Len(h.v[k].v) : ValidString(h.v[k].v[i])
ValidMessage(m) ==
  /\ ValidString(m.ID)
  /\ IsRequest(m) => ValidString(m.Method) /\ ValidString(m.Path)
  /\ ValidHeaders(m.Headers)

TypeOf(m) == IF IsRequest(m) THEN TypeRequest ELSE TypeResponse

\* C18: for every valid Request R, DecodeRequest on the bytes EncodeRequest(R) wrote
\* returns no error and a Request equal to R in id, method, path, headers (values in
\* their order) and body; the same for Response with EncodeResponse / DecodeResponse.
C18_RoundTrip ==
  \A i \in 1..Len(codec.got) :
    (/\ ~codec.cut
     /\ ValidMessage(codec.msg)
     /\ codec.got[i].type = TypeOf(codec.msg)) =>
       /\ codec.got[i].err = ""
       /\ codec.got[i].v = codec.msg

\* a Request with escaped characters in its id, two different values under one header
\* (and a second header) and a body came back from the second of two frames
C18_Witness ==
  /\ Len(codec.got) = 2 /\ ~codec.cut /\ IsRequest(codec.msg)
  /\ codec.msg.ID = Txt(<<"\"", "\\">>)
  /\ codec.msg.Body = Val(<<0, 255>>)
  /\ ~codec.msg.Headers.nil /\ Cardinality(DOMAIN codec.msg.Headers.v) = 2
  /\ codec.msg.Headers.v[Txt(<<"k">>)] = Val(<<Txt(<<"w">>), Txt(<<"v">>)>>)
  /\ codec.got[2].err = "" /\ codec.got[2].v = codec.msg

\* the last decode met a frame of the other type
Mismatch ==
  /\ codec.got # <<>>
  /\ LET g == codec.got[Len(codec.got)] IN
     /\ g.before # <<>>
     /\ g.before[1] \in {TypeRequest, TypeResponse}
     /\ g.before[1] # g.type

\* C19: DecodeRequest on a Response frame, and DecodeResponse on a Request frame,
\* return an error and no value, and read no byte behind the frame's header: what
\* they leave in the stream starts within the header and holds the whole payload.
C19_MismatchReadsHeaderOnly ==
  Mismatch =>
    LET g == codec.got[Len(codec.got)]
        n == Len(g.before) - Len(codec.w)
    IN /\ g.err # ""
       /\ g.v = NoValue
       /\ n <= HeaderLen
       /\ codec.w = SubSeq(g.before, n + 1, Len(g.before))

\* DecodeResponse met the first of two whole Request frames
C19_Witness ==
  /\ Mismatch /\ ~codec.cut /\ Len(codec.frames) = 2 /\ Len(codec.got) = 1
  /\ codec.got[1].type = TypeResponse /\ IsRequest(codec.msg)
  /\ Len(codec.w) > Len(codec.frames[2])

\* the last handshake carried a non-empty bearer token
BearerToken == HasPrefix(connect.auth, BearerPrefix) /\ Len(connect.auth) > Len(BearerPrefix)

\* C20: without a TokenValidator a handshake with any non-empty bearer token (and a
\* domain, on a connection that can be hijacked) is accepted and its session's user
\* is "anonymous"; with a validator a session exists only for a token the validator
\* accepts and its user is the one the validator returned for that token.
C20_UserIdentity ==
  LET token == TrimPrefix(connect.auth, BearerPrefix) IN
  /\ (~tokenValidator /\ BearerToken /\ connect.domain # <<>> /\ connect.hijack) =>
       /\ connect.code = 200 /\ connect.session # Nil
       /\ tun[connect.session].UserID = "anonymous"
  /\ (~tokenValidator /\ connect.session # Nil) =>
       tun[connect.session].UserID = "anonymous"
  /\ (tokenValidator /\ connect.session # Nil) =>
       /\ BearerToken
       /\ TokenValidate(token).valid
       /\ tun[connect.session].UserID = TokenValidate(token).user

\* no validator: a token the validator would refuse got an "anonymous" session
C20_Witness ==
  /\ ~tokenValidator /\ connect.auth = BearerPrefix \o <<"x">>
  /\ ~TokenValidate(<<"x">>).valid
  /\ connect.session # Nil /\ tun[connect.session].UserID = "anonymous"

\* the request-writing goroutine of session t is on its write-failure path
WriteFailed(t) == wr[t].pc \in {"failSend", "failClose"}

\* session t is Closed and the registry no longer returns it
ClosedAndGone(t) ==
  tun[t].state = TunnelStateClosed /\ ~\E d \in Names : tunnels[d] = t

\* C21: when the write of a Request frame fails, the session is closed (its state
\* becomes Closed and it leaves the registry) and the waiter of that request gets a
\* synthetic failure. Stated as: from the failure on, the session eventually is
\* Closed and unregistered (or the process has panicked).
C21_WriteFailureCloses ==
  \A t \in Sessions : WriteFailed(t) ~> (panicked \/ ClosedAndGone(t))

\* the lifecycle goroutine of t gives up in this step: the read of the Ready frame
\* or the decode of a Response frame has failed
DecodeFails(t) == life[t].pc \in {"waitReady", "decode"} /\ life'[t].pc = "closing"

Discards(t) == life[t].pc = "decode" /\ life'[t].pc = "readTop"

\* C23: on a Ready session a Response frame whose id matches no in-flight request is
\* discarded: a frame is delivered only if its id is in the table; the step that
\* discards one sends on no respCh, leaves the in-flight table, the session (Ready,
\* registered, not done) and every handleProxy call as they were, and the reader is
\* back at the top of its loop, from where the next frames are read and delivered.
C23_StrayDiscarded ==
  [][\A t \in Sessions :
       /\ (life[t].pc = "decode" /\ life'[t].pc = "deliver") =>
            pending[t][life'[t].resp.id] = life'[t].pr /\ life'[t].pr # Nil
       /\ (Discards(t) /\ tun[t].state = TunnelStateReady) =>
            /\ UNCHANGED <<ch, pending, tun, tunnels, hp, wire, wr, cl>>
            /\ tun'[t].state = TunnelStateReady /\ ~tun'[t].done
            /\ life'[t] = [life[t] EXCEPT !.pc = "readTop", !.stray = life'[t].stray]]_vars

\* a frame was discarded, the session is still Ready and registered, and a request
\* has been answered with the Response the peer sent for it
C23_Witness ==
  \E t \in Sessions, r \in Reqs :
    /\ life[t].stray >= 1
    /\ tun[t].state = TunnelStateReady /\ tunnels[tun[t].Domain] = t
    /\ hp[r].pc = "done" /\ hp[r].tun = t /\ hp[r].out = Out(200, BodyPeer)

RefusedAtTest(r) == hp[r].pc = "done" /\ hp[r].tun # Nil /\ hp[r].id = ""

\* C25: a public request whose state test finds the session Closed is answered
\* 502 "tunnel closed" in that step, which touches no session, channel or wire; and
\* such a request never is in a pre-ready queue, on a writer channel, in an
\* in-flight table or on the wire.
C25_ClosedRefused ==
  /\ [][\A r \in Reqs :
          (/\ hp[r].pc = "state" /\ hp'[r] # hp[r]
           /\ tun[hp[r].tun].state = TunnelStateClosed) =>
             /\ hp'[r].pc = "done"
             /\ hp'[r].out = Out(502, <<"tunnel", "closed">>)
             /\ UNCHANGED <<tun, wire, pending, ch, accepted, tunnels>>]_vars
  /\ [](\A r \in Reqs : RefusedAtTest(r) =>
          /\ hp[r].out = Out(502, <<"tunnel", "closed">>)
          /\ ch[r] = [buf |-> NoResp, closed |-> FALSE, log |-> <<>>]
          /\ \A t \in Sessions :
               /\ r \notin Range(accepted[t]) \cup Range(wire[t])
               /\ r \notin Range(tun[t].pendingQueue) \cup Range(tun[t].reqCh)
               /\ \A i \in IDs : pending[t][i] # r)

\* a request found its session Closed while the session was still registered
\* (Close had not yet run its callback) and was refused
C25_Witness ==
  \E r \in Reqs :
    /\ RefusedAtTest(r) /\ hp[r].out.code = 502
    /\ tun[hp[r].tun].state = TunnelStateClosed
    /\ tunnels[tun[hp[r].tun].Domain] = hp[r].tun

\* handleProxy call r leaves the queue branch with the answer 503 in this step
Rejects(r) == hp[r].pc = "place" /\ hp'[r].pc = "done" /\ hp'[r].out.code = 503

\* C26: a request that finds the pre-ready queue full is rejected with 503 and
\* Retry-After: 1, and the rejection changes nothing else: the session's state, its
\* queue (entries and order), its channels, the registry and every other handleProxy
\* call are as before, so that the drain on Ready treats the queued requests as it
\* would have without the rejected one.
C26_RejectionIsLocal ==
  [][\A r \in Reqs :
       /\ (/\ hp[r].pc = "place" /\ hp[r].state = TunnelStateConnected
           /\ hp'[r] # hp[r]
           /\ Len(tun[hp[r].tun].pendingQueue) >= MaxPendingQueue) => Rejects(r)
       /\ Rejects(r) =>
            /\ hp'[r].out.retry = "1"
            /\ UNCHANGED <<tun, tunnels, ch, pending, wire, accepted, life, wr, cl>>
            /\ \A q \in Reqs \ {r} : hp'[q] = hp[q]]_vars

\* one request was rejected with 503 while another was queued; the session, still
\* registered, then became Ready and the queued request's frame is on the wire
C26_Witness ==
  \E t \in Sessions, r, q \in Reqs :
    /\ hp[r].pc = "done" /\ hp[r].tun = t /\ hp[r].out.code = 503 /\ hp[r].out.retry = "1"
    /\ hp[q].pc = "wait" /\ accepted[t] = <<q>> /\ wire[t] = <<q>>
    /\ tun[t].state = TunnelStateReady /\ tunnels[tun[t].Domain] = t

\* the drain of session t handles the entry at life[t].fidx in this step
Drains(t) == life[t].pc = "flush" /\ life'[t].fidx = life[t].fidx + 1

\* C27: the drain on the transition to Ready hands every entry that has not outlived
\* PendingQueueTTL to the writer channel, behind what the channel already holds, and
\* sends nothing on the entry's respCh.
C27_FreshEntriesHandedOver ==
  [][\A t \in Sessions :
       Drains(t) =>
         LET pr == tun[t].pendingQueue[life[t].fidx] IN
         ~Expired(life[t].fnow, hp[pr].queuedAt) =>
           /\ tun'[t].reqCh = Append(tun[t].reqCh, pr)
           /\ ch'[pr] = ch[pr]]_vars

\* session b is the last one that registered under its domain
Latest(b) ==
  /\ b <= nsess
  /\ ~\E c \in Sessions : c > b /\ c <= nsess /\ tun[c].Domain = tun[b].Domain

\* C28: the session that registered last under a hostname stays in the registry for
\* as long as it is not Closed, whatever happens to the session it replaced.
C28_SuccessorKeepsEntry ==
  \A b \in Sessions :
    (Latest(b) /\ tun[b].state # TunnelStateClosed) => tunnels[tun[b].Domain] = b

\* the lifecycle goroutine of t has not yet started the request-writing goroutine
BeforeReadLoop(t) ==
  life[t].pc \in {"off", "waitReady", "setReady", "flushLock", "flush", "readStart"}

CloseCalled(t) ==
  \E c \in CloseCallers : cl[c].tun = t /\ cl[c].pc \notin {"idle", "noop"}

\* every goroutine of session t has returned: the lifecycle goroutine (after its own
\* Close() call), the request-writing goroutine and writeLoop, if they were started
TasksExited(t) ==
  /\ life[t].pc = "closing" /\ cl[LC(t)].pc \in {"returned", "noop"}
  /\ wr[t].pc \in {"off", "exit"}
  /\ life[t].wl \in {"off", "exit"}

GaveUp(r) == hp[r].pc = "done" /\ hp[r].out.code = 504

\* no other request carries the id of request r
OwnId(r) == \A q \in Reqs \ {r} : hp[q].id # hp[r].id

\* C31: once the caller of a request has given up on the deadline, a Response that
\* the reader then takes for that request is absorbed: whenever the reader is about
\* to send it, the abandoned respCh is open and empty, so the send neither blocks
\* nor panics.
C31_LateResponseAbsorbed ==
  \A t \in Sessions, r \in Reqs :
    []((GaveUp(r) /\ OwnId(r) /\ life[t].pr # r)
         => []((life[t].pc = "deliver" /\ life[t].pr = r)
                 => (~ch[r].closed /\ ch[r].buf = NoResp)))

\* a Response for request r has been taken by the reader of t, or something was
\* sent on r's respCh: the request is completed
Completed(t, r) == life[t].pr = r \/ ch[r].log # <<>>

\* C32: while the writer is writing the frame of a request, and after it has written
\* it, the request is in the in-flight table under its id, unless the request is
\* completed (for a request that shares its id with no other): the entry is made
\* before the first byte is written and only a Response removes it.
C32_TrackedBeforeWritten ==
  \A t \in Sessions :
    /\ wr[t].pc = "write" =>
         LET r == wr[t].pr IN
         OwnId(r) => (pending[t][hp[r].id] = r \/ Completed(t, r))
    /\ \A i \in 1..Len(wire[t]) :
         LET r == wire[t][i] IN
         OwnId(r) => (pending[t][hp[r].id] = r \/ Completed(t, r))

\* one frame is written and the next is being written; both requests are in the
\* table and neither is completed
C32_Witness ==
  \E t \in Sessions :
    /\ Len(wire[t]) = 1 /\ wr[t].pc = "write"
    /\ pending[t][hp[wire[t][1]].id] = wire[t][1]
    /\ pending[t][hp[wr[t].pr].id] = wr[t].pr
    /\ hp[wr[t].pr].id # hp[wire[t][1]].id
    /\ ~Completed(t, wire[t][1]) /\ ~Completed(t, wr[t].pr)

\* the positions of the frames of one type among those the client wrote
FramesOf(type) == {i \in DOMAIN client.out : client.out[i].type = type}

\* C33: the tunnel client writes at most one Ready frame; once its handshake has
\* succeeded and it goes on to its loop, the Ready frame is the first frame on the
\* connection, written before any Request frame was read and before any Response
\* frame was written.
C33_ReadyOnceAndFirst ==
  /\ Cardinality(FramesOf("Ready")) <= 1
  /\ client.pc \in {"loop", "decode", "forward", "encode", "exit"} =>
       (client.out # <<>> /\ client.out[1] = ReadyFrame)
  /\ (client.read # <<>> \/ FramesOf("Response") # {}) =>
       (client.out # <<>> /\ client.out[1] = ReadyFrame)

\* two Request frames read and the first answered, behind the one Ready frame
C33_Witness ==
  /\ Len(client.read) = 2
  /\ FramesOf("Ready") = {1}
  /\ FramesOf("Response") = {2}

\* C34: whenever the client holds a Request frame it has just read, every Request
\* frame it read before has its Response on the connection, one each and in order:
\* the k-th Response frame carries the id of the k-th Request frame read.
C34_OneResponsePerRequest ==
  client.pc \in {"forward", "encode"} =>
    /\ Cardinality(FramesOf("Response")) = Len(client.read) - 1
    /\ \A k \in 1..(Len(client.read) - 1) :
         k + 1 \in FramesOf("Response") /\ client.out[k + 1].id = client.read[k]

\* two requests with one id are in flight on session t: the frame of r1 is on the
\* wire, r2 is on the wire or being written
SameIdInFlight(t, r1, r2) ==
  /\ r1 # r2 /\ hp[r1].id = hp[r2].id
  /\ r1 \in Range(wire[t])
  /\ r2 \in Range(wire[t]) \/ wr[t].pr = r2

\* the Response frames the peer of session t has sent so far
Answers(t) ==
  life[t].stray + (IF life[t].pc = "deliver" THEN 1 ELSE 0)
    + Cardinality({r \in Reqs : hp[r].tun = t /\ \E i \in 1..Len(ch[r].log) :
                                  ch[r].log[i] \notin {NilResp, NoResp}})

\* C35: while two requests with one id are in flight on an open session whose peer
\* has answered no more frames than it was sent, no goroutine has panicked.
C35_SameIdHarmless ==
  \A t \in Sessions, r1 \in Reqs, r2 \in Reqs :
    (/\ SameIdInFlight(t, r1, r2)
     /\ ~tun[t].done
     /\ Answers(t) <= Len(wire[t])) => ~panicked

\* session t is Closed and a Close() that ran the close path on it has returned
ClosedAndReturned(t) ==
  /\ tun[t].state = TunnelStateClosed
  /\ \E c \in CloseCallers : cl[c].tun = t /\ cl[c].pc = "returned"

\* C36: the pre-ready queue of a session that is Closed, and whose Close() has
\* returned, is empty in every later state: no handleProxy call appends to it
\* behind the drain.
C36_QueueStaysEmpty ==
  \A t \in Sessions : ClosedAndReturned(t) => tun[t].pendingQueue = <<>>

\* C37: no Close() call runs the close path of a session on which another call has
\* run it: none of them executes close(t.done) on the closed channel.
C37_DoneClosedOnce ==
  \A c \in CloseCallers :
    /\ cl[c].pc # "panic"
    /\ cl[c].pc = "signal" => ~tun[cl[c].tun].done

\* a goroutine panicked in a send on, or a close of, a respCh (the one other panic
\* of the model is the close of the closed done channel)
SlotPanic == panicked /\ \A c \in CloseCallers : cl[c].pc # "panic"

\* C38: at most one value is ever sent on a request's respCh, and no goroutine sends
\* on a respCh that is closed or closes one that is closed.
C38_SlotCompletedOnce ==
  /\ \A r \in Reqs : Len(ch[r].log) <= 1
  /\ ~SlotPanic

\* the locks task k holds
Held(k) == {m \in Mutexes : locks.mu[m].w = k \/ k \in locks.mu[m].r}

\* C39: some task that is not at its end can always take its next step (no
\* deadlock on the locks); a task that asks for a lock holds none; and a task at
\* wire I/O, at a channel send or at the on-close callback does not hold the state
\* lock.
C39_LocksNeverDeadlock ==
  /\ (\E k \in LockTasks : NextOp(k).op # "end") => \E k \in LockTasks : CanStep(k)
  /\ \A k \in LockTasks :
       NextOp(k).op \in {"RLock", "Want", "Lock"} => Held(k) = {}
  /\ \A k \in LockTasks :
       NextOp(k).op \in {"io", "send", "callback"} => "state" \notin Held(k)

\* Close() drains under the queue lock while a handleProxy call waits for that
\* lock and a third task reads the registry
C39_Witness ==
  \E k1 \in LockTasks, k2 \in LockTasks, k3 \in LockTasks :
    /\ locks.kind[k1] = "Close" /\ NextOp(k1).op = "send" /\ Held(k1) = {"queue"}
    /\ locks.kind[k2] = "handleProxy/queue" /\ NextOp(k2) = Op("Lock", "queue")
    /\ k3 \notin {k1, k2} /\ Held(k3) = {"reg"}

\* session t is open: not Closed, done not closed
Open(t) == tun[t].state # TunnelStateClosed /\ ~tun[t].done

\* C40: on an open session every request in the in-flight table has a caller that
\* has not returned yet: the entry of a caller that got its answer or gave up on
\* the deadline is gone.
C40_TableHoldsWaiters ==
  \A t \in Sessions, i \in IDs :
    (Open(t) /\ pending[t][i] # Nil) => hp[pending[t][i]].pc # "done"

====
